---- MODULE Spec2Model ----
(***************************************************************************)
(* A model of the airgap JSON formatter: format_json / minify_json         *)
(* (src/src/formatter.rs), validate_json (src/src/validator.rs) and the    *)
(* serde_json text parser and compact serializer they call.                *)
(*                                                                         *)
(* A text (a Rust &str / String) is a sequence of Unicode code points.     *)
(* Positions reported by the parser count UTF-8 bytes, as serde_json does. *)
(***************************************************************************)
EXTENDS Integers, Sequences, FiniteSets, TLC

(***************************************************************************)
(* Characters.                                                             *)
(***************************************************************************)
Code ==
  [ tab |-> 9, lf |-> 10, cr |-> 13, space |-> 32, quote |-> 34, plus |-> 43,
    comma |-> 44, minus |-> 45, dot |-> 46, slash |-> 47, zero |-> 48,
    nine |-> 57, colon |-> 58, upperA |-> 65, upperB |-> 66, upperE |-> 69,
    upperF |-> 70, lbracket |-> 91, backslash |-> 92, rbracket |-> 93,
    a |-> 97, b |-> 98, c |-> 99, e |-> 101, f |-> 102, l |-> 108, n |-> 110,
    r |-> 114, s |-> 115, t |-> 116, u |-> 117, x |-> 120, lbrace |-> 123,
    rbrace |-> 125, del |-> 127, nel |-> 133, eacute |-> 233,
    bs |-> 8, ff |-> 12, soh |-> 1,
    hash |-> 35, amp |-> 38, semicolon |-> 59, lt |-> 60, equals |-> 61,
    gt |-> 62, d |-> 100, g |-> 103, h |-> 104, i |-> 105, m |-> 109,
    o |-> 111, p |-> 112, y |-> 121, upperZ |-> 90, z |-> 122 ]

EOF == 0 - 1

IsDigit(ch) == ch >= Code.zero /\ ch <= Code.nine

\* The texts of the three JSON keywords after their first letter.
IdentUll  == << Code.u, Code.l, Code.l >>
IdentRue  == << Code.r, Code.u, Code.e >>
IdentAlse == << Code.a, Code.l, Code.s, Code.e >>

\* Number of bytes of the UTF-8 encoding of a code point (str stores UTF-8).
Utf8Len(ch) ==
  IF ch < 128 THEN 1 ELSE IF ch < 2048 THEN 2 ELSE IF ch < 65536 THEN 3 ELSE 4

(***************************************************************************)
(* serde_json::Value.  An Object is a Map<String, Value>, a BTreeMap: its  *)
(* entries are kept as a sequence of <<key, value>> in ascending key order.*)
(***************************************************************************)
Null        == [kind |-> "Null"]
Bool(b)     == [kind |-> "Bool", b |-> b]
Number(n)   == [kind |-> "Number", n |-> n]
String(s)   == [kind |-> "String", s |-> s]
Array(arr)  == [kind |-> "Array", arr |-> arr]
Object(obj) == [kind |-> "Object", obj |-> obj]

\* Ord for String: lexicographic on the UTF-8 bytes, which is the order of
\* the code-point sequences.
RECURSIVE StrLess(_, _)
StrLess(s1, s2) ==
  IF s1 = <<>> THEN s2 # <<>>
  ELSE IF s2 = <<>> THEN FALSE
  ELSE IF Head(s1) # Head(s2) THEN Head(s1) < Head(s2)
  ELSE StrLess(Tail(s1), Tail(s2))

\* Map::insert: replace the value of an equal key, else insert in key order.
RECURSIVE MapInsert(_, _, _)
MapInsert(obj, key, val) ==
  IF obj = <<>> THEN << <<key, val>> >>
  ELSE IF Head(obj)[1] = key THEN << <<key, val>> >> \o Tail(obj)
  ELSE IF StrLess(key, Head(obj)[1]) THEN << <<key, val>> >> \o obj
  ELSE << Head(obj) >> \o MapInsert(Tail(obj), key, val)

(***************************************************************************)
(* serde_json::from_str::<Value>: the reader (read::SliceRead behind       *)
(* StrRead) and the deserializer (de::Deserializer).  i is the reader's    *)
(* index: the number of characters consumed so far.                        *)
(***************************************************************************)
\* Recursion limit of the deserializer (Deserializer::remaining_depth).
RecursionLimit == 128

Peek(t, i) == IF i < Len(t) THEN t[i + 1] ELSE EOF

RECURSIVE ByteLen(_, _, _)
ByteLen(t, from, to) ==
  IF from > to THEN 0 ELSE Utf8Len(t[from]) + ByteLen(t, from + 1, to)

\* SliceRead::position_of_index for the first n characters: line starts at 1
\* and grows by one per line feed, column is the number of bytes after the
\* last line feed (0 right after one, and 0 at the very start).
PositionOfIndex(t, n) ==
  LET lfs    == {k \in 1..n : t[k] = Code.lf}
      lastLf == IF lfs = {} THEN 0 ELSE CHOOSE k \in lfs : \A m \in lfs : m <= k
  IN  [line |-> 1 + Cardinality(lfs), column |-> ByteLen(t, lastLf + 1, n)]

\* Read::position
Position(t, i) == PositionOfIndex(t, i)

\* Read::peek_position: position_of_index(min(len, index + 1)), one byte on.
PeekPosition(t, i) ==
  IF i >= Len(t) THEN PositionOfIndex(t, Len(t))
  ELSE IF t[i + 1] = Code.lf THEN PositionOfIndex(t, i + 1)
  ELSE LET p == PositionOfIndex(t, i)
       IN  [line |-> p.line, column |-> p.column + 1]

SyntaxError(code, pos) ==
  [ok |-> FALSE, err |-> [code |-> code, line |-> pos.line, column |-> pos.column]]

\* Deserializer::error and Deserializer::peek_error
Error(t, i, code)     == SyntaxError(code, Position(t, i))
PeekError(t, i, code) == SyntaxError(code, PeekPosition(t, i))

IsWhitespace(ch) == ch \in {Code.space, Code.lf, Code.tab, Code.cr}

\* Deserializer::parse_whitespace: the index of the first character that is
\* not a space, line feed, tab or carriage return.
RECURSIVE ParseWhitespace(_, _)
ParseWhitespace(t, i) ==
  IF i < Len(t) /\ IsWhitespace(t[i + 1]) THEN ParseWhitespace(t, i + 1) ELSE i

\* Deserializer::parse_ident
RECURSIVE ParseIdent(_, _, _)
ParseIdent(t, i, ident) ==
  IF ident = <<>> THEN [ok |-> TRUE, i |-> i]
  ELSE IF i >= Len(t) THEN Error(t, i, "EofWhileParsingValue")
  ELSE IF t[i + 1] # Head(ident) THEN Error(t, i + 1, "ExpectedSomeIdent")
  ELSE ParseIdent(t, i + 1, Tail(ident))

\* Deserializer::parse_number for an integer literal: u64 when positive,
\* i64 when negative.  (Fractions, exponents, "-0" and literals beyond 64
\* bits become f64 in serde_json; the inputs of this model carry none.)
ParseNumber(t, i, positive, significand) ==
  [ok |-> TRUE, i |-> i,
   v |-> Number(IF positive THEN significand ELSE 0 - significand)]

\* The digit loop of Deserializer::parse_integer
RECURSIVE ParseDigits(_, _, _, _)
ParseDigits(t, i, positive, significand) ==
  IF IsDigit(Peek(t, i))
  THEN ParseDigits(t, i + 1, positive, significand * 10 + (t[i + 1] - Code.zero))
  ELSE ParseNumber(t, i, positive, significand)

\* Deserializer::parse_integer (parse_any_number)
ParseInteger(t, i, positive) ==
  IF i >= Len(t) THEN Error(t, i, "EofWhileParsingValue")
  ELSE LET next == t[i + 1] IN
       IF next = Code.zero
       THEN IF IsDigit(Peek(t, i + 1))
            THEN PeekError(t, i + 1, "InvalidNumber")
            ELSE ParseNumber(t, i + 1, positive, 0)
       ELSE IF IsDigit(next)
       THEN ParseDigits(t, i + 1, positive, next - Code.zero)
       ELSE Error(t, i + 1, "InvalidNumber")

\* read::decode_hex_val
HexVal(ch) ==
  IF IsDigit(ch) THEN ch - Code.zero
  ELSE IF ch >= Code.a /\ ch <= Code.f THEN ch - Code.a + 10
  ELSE IF ch >= Code.upperA /\ ch <= Code.upperF THEN ch - Code.upperA + 10
  ELSE 0 - 1

\* The character a one-letter escape stands for (read::parse_escape), or EOF
\* when the letter starts no escape.
EscapeChar(ch) ==
  IF ch \in {Code.quote, Code.backslash, Code.slash} THEN ch
  ELSE IF ch = Code.b THEN Code.bs
  ELSE IF ch = Code.f THEN Code.ff
  ELSE IF ch = Code.n THEN Code.lf
  ELSE IF ch = Code.r THEN Code.cr
  ELSE IF ch = Code.t THEN Code.tab
  ELSE EOF

\* SliceRead::parse_str with read::parse_escape and parse_unicode_escape: i
\* is just after the opening quote; the result is the decoded string and
\* the index after the closing quote.  (Surrogate escapes \uD800..\uDFFF
\* are outside the inputs of this model.)
RECURSIVE ParseStr(_, _, _)
ParseStr(t, i, scratch) ==
  IF i >= Len(t) THEN Error(t, Len(t), "EofWhileParsingString")
  ELSE LET ch == t[i + 1] IN
       IF ch = Code.quote THEN [ok |-> TRUE, i |-> i + 1, v |-> scratch]
       ELSE IF ch = Code.backslash
       THEN IF i + 1 >= Len(t) THEN Error(t, i + 1, "EofWhileParsingString")
            ELSE LET esc == t[i + 2] IN
                 IF esc = Code.u
                 THEN IF i + 6 > Len(t) THEN Error(t, Len(t), "EofWhileParsingString")
                      ELSE LET h1 == HexVal(t[i + 3])
                               h2 == HexVal(t[i + 4])
                               h3 == HexVal(t[i + 5])
                               h4 == HexVal(t[i + 6])
                           IN  IF h1 < 0 \/ h2 < 0 \/ h3 < 0 \/ h4 < 0
                               THEN Error(t, i + 6, "InvalidEscape")
                               ELSE ParseStr(t, i + 6,
                                      Append(scratch, ((h1 * 16 + h2) * 16 + h3) * 16 + h4))
                 ELSE IF EscapeChar(esc) = EOF THEN Error(t, i + 2, "InvalidEscape")
                 ELSE ParseStr(t, i + 2, Append(scratch, EscapeChar(esc)))
       ELSE IF ch < 32 THEN Error(t, i + 1, "ControlCharacterWhileParsingString")
       ELSE ParseStr(t, i + 1, Append(scratch, ch))

\* Deserializer::end_seq
EndSeq(t, i) ==
  LET j == ParseWhitespace(t, i) IN
  IF Peek(t, j) = Code.rbracket THEN [ok |-> TRUE, i |-> j + 1]
  ELSE IF Peek(t, j) = Code.comma
  THEN LET k == ParseWhitespace(t, j + 1) IN
       IF Peek(t, k) = Code.rbracket THEN PeekError(t, k, "TrailingComma")
       ELSE PeekError(t, k, "TrailingCharacters")
  ELSE IF Peek(t, j) = EOF THEN PeekError(t, j, "EofWhileParsingList")
  ELSE PeekError(t, j, "TrailingCharacters")

\* Deserializer::end_map
EndMap(t, i) ==
  LET j == ParseWhitespace(t, i) IN
  IF Peek(t, j) = Code.rbrace THEN [ok |-> TRUE, i |-> j + 1]
  ELSE IF Peek(t, j) = Code.comma THEN PeekError(t, j, "TrailingComma")
  ELSE IF Peek(t, j) = EOF THEN PeekError(t, j, "EofWhileParsingObject")
  ELSE PeekError(t, j, "TrailingCharacters")

\* Deserializer::parse_object_colon
ParseObjectColon(t, i) ==
  LET j == ParseWhitespace(t, i) IN
  IF Peek(t, j) = Code.colon THEN [ok |-> TRUE, i |-> j + 1]
  ELSE IF Peek(t, j) = EOF THEN PeekError(t, j, "EofWhileParsingObject")
  ELSE PeekError(t, j, "ExpectedColon")

RECURSIVE DeserializeAny(_, _, _)
RECURSIVE VisitSeq(_, _, _, _, _)
RECURSIVE VisitMap(_, _, _, _, _)

\* vec.push(elem) and the next turn of visit_seq's loop, or the element's
\* error.
PushElement(elem, t, vec, depth) ==
  IF elem.ok THEN VisitSeq(t, elem.i, FALSE, Append(vec, elem.v), depth) ELSE elem

\* One element at index k, then the rest of the array.
SeqElement(t, k, vec, depth) ==
  PushElement(DeserializeAny(t, k, depth), t, vec, depth)

\* ValueVisitor::visit_seq over SeqAccess::next_element_seed: the elements
\* up to, not including, the closing bracket.
VisitSeq(t, i, first, vec, depth) ==
  LET j == ParseWhitespace(t, i)
      ch == Peek(t, j)
  IN  IF ch = Code.rbracket THEN [ok |-> TRUE, i |-> j, v |-> vec]
      ELSE IF ch = Code.comma /\ ~first
      THEN LET k == ParseWhitespace(t, j + 1) IN
           IF Peek(t, k) = Code.rbracket THEN PeekError(t, k, "TrailingComma")
           ELSE IF Peek(t, k) = EOF THEN PeekError(t, k, "EofWhileParsingValue")
           ELSE SeqElement(t, k, vec, depth)
      ELSE IF ch = EOF THEN PeekError(t, j, "EofWhileParsingList")
      ELSE IF first THEN SeqElement(t, j, vec, depth)
      ELSE PeekError(t, j, "ExpectedListCommaOrEnd")

\* values.insert(key, value) and the next turn of visit_map's loop, or the
\* value's error.
InsertEntry(val, t, key, map, depth) ==
  IF val.ok THEN VisitMap(t, val.i, FALSE, MapInsert(map, key, val.v), depth) ELSE val

\* MapAccess::next_value_seed: the colon, then the value.
MapValue(colon, t, key, map, depth) ==
  IF colon.ok THEN InsertEntry(DeserializeAny(t, colon.i, depth), t, key, map, depth)
  ELSE colon

\* MapKey: the key is a string.
MapKey(key, t, map, depth) ==
  IF key.ok THEN MapValue(ParseObjectColon(t, key.i), t, key.v, map, depth) ELSE key

\* One "key": value entry whose key starts at index k, then the rest.
MapEntry(t, k, map, depth) ==
  IF Peek(t, k) = Code.quote THEN MapKey(ParseStr(t, k + 1, <<>>), t, map, depth)
  ELSE IF Peek(t, k) = Code.rbrace THEN PeekError(t, k, "TrailingComma")
  ELSE IF Peek(t, k) = EOF THEN PeekError(t, k, "EofWhileParsingValue")
  ELSE PeekError(t, k, "KeyMustBeAString")

\* ValueVisitor::visit_map over MapAccess::next_key_seed / next_value_seed:
\* the entries up to, not including, the closing brace, inserted one by one.
VisitMap(t, i, first, map, depth) ==
  LET j == ParseWhitespace(t, i)
      ch == Peek(t, j)
  IN  IF ch = Code.rbrace THEN [ok |-> TRUE, i |-> j, v |-> map]
      ELSE IF ch = Code.comma /\ ~first
      THEN MapEntry(t, ParseWhitespace(t, j + 1), map, depth)
      ELSE IF ch = EOF THEN PeekError(t, j, "EofWhileParsingObject")
      ELSE IF first THEN MapEntry(t, j, map, depth)
      ELSE PeekError(t, j, "ExpectedObjectCommaOrEnd")

\* match (ret, self.end_seq()) and match (ret, self.end_map()) in
\* deserialize_any: the visitor's error first, then the closing bracket's.
Closed(end, value) ==
  IF end.ok THEN [ok |-> TRUE, i |-> end.i, v |-> value] ELSE end

VisitedSeq(ret, t) == IF ret.ok THEN Closed(EndSeq(t, ret.i), Array(ret.v)) ELSE ret

VisitedMap(ret, t) == IF ret.ok THEN Closed(EndMap(t, ret.i), Object(ret.v)) ELSE ret

\* A literal null, true or false: the rest of its letters, then its value.
Ident(r, value) == IF r.ok THEN [ok |-> TRUE, i |-> r.i, v |-> value] ELSE r

\* Deserializer::deserialize_any with the ValueVisitor; depth is
\* remaining_depth.
DeserializeAny(t, i, depth) ==
  LET j == ParseWhitespace(t, i)
      peek == Peek(t, j)
  IN  IF peek = EOF THEN PeekError(t, j, "EofWhileParsingValue")
      ELSE IF peek = Code.n THEN Ident(ParseIdent(t, j + 1, IdentUll), Null)
      ELSE IF peek = Code.t THEN Ident(ParseIdent(t, j + 1, IdentRue), Bool(TRUE))
      ELSE IF peek = Code.f THEN Ident(ParseIdent(t, j + 1, IdentAlse), Bool(FALSE))
      ELSE IF peek = Code.minus THEN ParseInteger(t, j + 1, FALSE)
      ELSE IF IsDigit(peek) THEN ParseInteger(t, j, TRUE)
      ELSE IF peek = Code.quote
      THEN LET r == ParseStr(t, j + 1, <<>>) IN
           IF r.ok THEN [ok |-> TRUE, i |-> r.i, v |-> String(r.v)] ELSE r
      ELSE IF peek = Code.lbracket
      THEN IF depth - 1 = 0 THEN PeekError(t, j, "RecursionLimitExceeded")
           ELSE VisitedSeq(VisitSeq(t, j + 1, TRUE, <<>>, depth - 1), t)
      ELSE IF peek = Code.lbrace
      THEN IF depth - 1 = 0 THEN PeekError(t, j, "RecursionLimitExceeded")
           ELSE VisitedMap(VisitMap(t, j + 1, TRUE, <<>>, depth - 1), t)
      ELSE PeekError(t, j, "ExpectedSomeValue")

\* Deserializer::end: nothing but whitespace may follow the value.
End(value, t) ==
  LET j == ParseWhitespace(t, value.i) IN
  IF Peek(t, j) # EOF THEN PeekError(t, j, "TrailingCharacters")
  ELSE [ok |-> TRUE, v |-> value.v]

\* serde_json::from_str::<Value> (de::from_trait): one value, then end.
FromTrait(value, t) == IF value.ok THEN End(value, t) ELSE value

from_str(t) == FromTrait(DeserializeAny(t, 0, RecursionLimit), t)

(***************************************************************************)
(* src/src/types.rs                                                        *)
(***************************************************************************)
\* enum IndentStyle
Spaces(n) == [style |-> "Spaces", n |-> n]
Tabs      == [style |-> "Tabs", n |-> 0]

RECURSIVE Repeat(_, _)
Repeat(str, n) == IF n = 0 THEN <<>> ELSE str \o Repeat(str, n - 1)

\* IndentStyle::as_str
as_str(indent) ==
  IF indent.style = "Spaces" THEN Repeat(<< Code.space >>, indent.n)
  ELSE << Code.tab >>

\* FormatError::new
FormatError(message, line, column) ==
  [message |-> message, line |-> line, column |-> column]

\* JsonStats::default
DefaultStats ==
  [object_count |-> 0, array_count |-> 0, string_count |-> 0,
   number_count |-> 0, boolean_count |-> 0, null_count |-> 0,
   max_depth |-> 0, total_keys |-> 0]

\* Option and Result
None    == [some |-> FALSE]
Some(x) == [some |-> TRUE, val |-> x]
Ok(x)   == [tag |-> "Ok", val |-> x]
Err(e)  == [tag |-> "Err", error |-> e]

\* ValidationResult::invalid leaving the error out.
InvalidWithoutError(error) == [is_valid |-> FALSE, error |-> None, stats |-> DefaultStats]

\* ValidationResult::valid and ValidationResult::invalid
Valid(stats) == [is_valid |-> TRUE, error |-> None, stats |-> stats]
Invalid(error) == [is_valid |-> FALSE, error |-> Some(error), stats |-> DefaultStats]

\* serde_json::Error as the callers read it: to_string() (the Display text
\* "<what> at line L column C"), line() and column().
to_string(e) == << e.code, e.line, e.column >>

\* The closure of map_err in minify_json, format_json and the Err arm of
\* validate_json: FormatError::new(e.to_string(), e.line(), e.column()).
ParseFailure(e) == FormatError(to_string(e), e.line, e.column)

(***************************************************************************)
(* Text helpers of the standard library (char::is_control, {:04x},         *)
(* integer Display).                                                       *)
(***************************************************************************)
\* The C0 controls alone.
IsControlC0(ch) == ch < 32

\* char::is_control: the general category Cc, U+0000..U+001F and
\* U+007F..U+009F.
is_control(ch) == ch < 32 \/ (ch >= 127 /\ ch <= 159)

HexDigit(d) == IF d < 10 THEN Code.zero + d ELSE Code.a + (d - 10)

RECURSIVE LowerHex(_)
LowerHex(n) ==
  IF n < 16 THEN << HexDigit(n) >> ELSE Append(LowerHex(n \div 16), HexDigit(n % 16))

RECURSIVE PadZero(_, _)
PadZero(digits, width) ==
  IF Len(digits) >= width THEN digits ELSE PadZero(<< Code.zero >> \o digits, width)

\* format!("\\u{:04x}", c as u32)
UnicodeEscape(ch) == << Code.backslash, Code.u >> \o PadZero(LowerHex(ch), 4)

RECURSIVE Decimal(_)
Decimal(n) ==
  IF n < 10 THEN << Code.zero + n >>
  ELSE Append(Decimal(n \div 10), Code.zero + (n % 10))

\* Number::to_string for an integer
NumberToString(n) == IF n < 0 THEN << Code.minus >> \o Decimal(0 - n) ELSE Decimal(n)

TextNull  == << Code.n, Code.u, Code.l, Code.l >>
TextTrue  == << Code.t, Code.r, Code.u, Code.e >>
TextFalse == << Code.f, Code.a, Code.l, Code.s, Code.e >>

(***************************************************************************)
(* src/src/formatter.rs: format_json                                       *)
(***************************************************************************)
\* push_indent without its loop: one unit at any depth above 0.
PushIndentOnce(output, indent_str, depth) ==
  IF depth = 0 THEN output ELSE output \o indent_str

\* push_indent
RECURSIVE push_indent(_, _, _)
push_indent(output, indent_str, depth) ==
  IF depth = 0 THEN output ELSE push_indent(output \o indent_str, indent_str, depth - 1)

\* One arm of the match on a character of a String value.
EscapeStringChar(ch) ==
  IF ch = Code.quote THEN << Code.backslash, Code.quote >>
  ELSE IF ch = Code.backslash THEN << Code.backslash, Code.backslash >>
  ELSE IF ch = Code.lf THEN << Code.backslash, Code.n >>
  ELSE IF ch = Code.cr THEN << Code.backslash, Code.r >>
  ELSE IF ch = Code.tab THEN << Code.backslash, Code.t >>
  ELSE IF is_control(ch) THEN UnicodeEscape(ch)
  ELSE << ch >>

\* The loop over s.chars() of the Value::String arm.
RECURSIVE PushStringChars(_, _)
PushStringChars(output, s) ==
  IF s = <<>> THEN output
  ELSE PushStringChars(output \o EscapeStringChar(Head(s)), Tail(s))

\* An object key as the Value::Object arm writes it: output.push_str(key).
PushKey(output, key) == output \o key

\* An empty array written with a line break inside.
EmptyArrayBroken == << Code.lbracket, Code.lf, Code.rbracket >>

\* output.push_str("[]") and output.push_str("{}")
EmptyArrayText  == << Code.lbracket, Code.rbracket >>
EmptyObjectText == << Code.lbrace, Code.rbrace >>

RECURSIVE format_value(_, _, _, _)
RECURSIVE FormatItems(_, _, _, _, _)
RECURSIVE FormatEntries(_, _, _, _, _)
RECURSIVE FormatEntriesReversed(_, _, _, _, _)

\* The loop of the Value::Array arm, from element i on.
FormatItems(arr, i, indent_str, depth, output) ==
  IF i > Len(arr) THEN output
  ELSE LET o1 == push_indent(output, indent_str, depth + 1)
           o2 == format_value(arr[i], indent_str, depth + 1, o1)
           o3 == IF i - 1 < Len(arr) - 1 THEN Append(o2, Code.comma) ELSE o2
       IN  FormatItems(arr, i + 1, indent_str, depth, Append(o3, Code.lf))

\* FormatEntries walking the map from its last entry to its first.
FormatEntriesReversed(obj, i, indent_str, depth, output) ==
  IF i > Len(obj) THEN output
  ELSE LET entry == obj[Len(obj) + 1 - i]
           o1 == push_indent(output, indent_str, depth + 1)
           o2 == PushKey(Append(o1, Code.quote), entry[1])
                   \o << Code.quote, Code.colon, Code.space >>
           o3 == format_value(entry[2], indent_str, depth + 1, o2)
           o4 == IF i - 1 < Len(obj) - 1 THEN Append(o3, Code.comma) ELSE o3
       IN  FormatEntriesReversed(obj, i + 1, indent_str, depth, Append(o4, Code.lf))

\* The loop of the Value::Object arm, from entry i on, in the map's order.
FormatEntries(obj, i, indent_str, depth, output) ==
  IF i > Len(obj) THEN output
  ELSE LET o1 == push_indent(output, indent_str, depth + 1)
           o2 == PushKey(Append(o1, Code.quote), obj[i][1])
                   \o << Code.quote, Code.colon, Code.space >>
           o3 == format_value(obj[i][2], indent_str, depth + 1, o2)
           o4 == IF i - 1 < Len(obj) - 1 THEN Append(o3, Code.comma) ELSE o3
       IN  FormatEntries(obj, i + 1, indent_str, depth, Append(o4, Code.lf))

\* format_value: the output with the rendering of value appended.
format_value(value, indent_str, depth, output) ==
  CASE value.kind = "Null" -> output \o TextNull
    [] value.kind = "Bool" -> output \o (IF value.b THEN TextTrue ELSE TextFalse)
    [] value.kind = "Number" -> output \o NumberToString(value.n)
    [] value.kind = "String" ->
         Append(PushStringChars(Append(output, Code.quote), value.s), Code.quote)
    [] value.kind = "Array" ->
         IF value.arr = <<>> THEN output \o EmptyArrayText
         ELSE Append(
                push_indent(
                  FormatItems(value.arr, 1, indent_str, depth,
                              output \o << Code.lbracket, Code.lf >>),
                  indent_str, depth),
                Code.rbracket)
    [] value.kind = "Object" ->
         IF value.obj = <<>> THEN output \o EmptyObjectText
         ELSE Append(
                push_indent(
                  FormatEntries(value.obj, 1, indent_str, depth,
                                output \o << Code.lbrace, Code.lf >>),
                  indent_str, depth),
                Code.rbrace)

\* format_json
format_json(text, indent) ==
  LET parsed == from_str(text) IN
  IF ~parsed.ok THEN Err(ParseFailure(parsed.err))
  ELSE Ok(format_value(parsed.v, as_str(indent), 0, <<>>))

(***************************************************************************)
(* src/src/formatter.rs: minify_json, with serde_json::to_string (the      *)
(* Serializer with the CompactFormatter).                                  *)
(***************************************************************************)
\* ser::format_escaped_str_contents: one character of a string or a key.
CompactEscape(ch) ==
  IF ch = Code.quote THEN << Code.backslash, Code.quote >>
  ELSE IF ch = Code.backslash THEN << Code.backslash, Code.backslash >>
  ELSE IF ch = Code.bs THEN << Code.backslash, Code.b >>
  ELSE IF ch = Code.ff THEN << Code.backslash, Code.f >>
  ELSE IF ch = Code.lf THEN << Code.backslash, Code.n >>
  ELSE IF ch = Code.cr THEN << Code.backslash, Code.r >>
  ELSE IF ch = Code.tab THEN << Code.backslash, Code.t >>
  ELSE IF ch < 32 THEN UnicodeEscape(ch)
  ELSE << ch >>

RECURSIVE CompactStr(_)
CompactStr(s) == IF s = <<>> THEN <<>> ELSE CompactEscape(Head(s)) \o CompactStr(Tail(s))

\* ser::format_escaped_str
CompactQuoted(s) == << Code.quote >> \o CompactStr(s) \o << Code.quote >>

RECURSIVE to_string_value(_)
RECURSIVE CompactItems(_, _)
RECURSIVE CompactEntries(_, _)

CompactItems(arr, i) ==
  IF i > Len(arr) THEN <<>>
  ELSE (IF i > 1 THEN << Code.comma >> ELSE <<>>)
         \o to_string_value(arr[i]) \o CompactItems(arr, i + 1)

CompactEntries(obj, i) ==
  IF i > Len(obj) THEN <<>>
  ELSE (IF i > 1 THEN << Code.comma >> ELSE <<>>)
         \o CompactQuoted(obj[i][1]) \o << Code.colon >>
         \o to_string_value(obj[i][2]) \o CompactEntries(obj, i + 1)

\* serde_json::to_string(&Value): impl Serialize for Value
to_string_value(value) ==
  CASE value.kind = "Null" -> TextNull
    [] value.kind = "Bool" -> IF value.b THEN TextTrue ELSE TextFalse
    [] value.kind = "Number" -> NumberToString(value.n)
    [] value.kind = "String" -> CompactQuoted(value.s)
    [] value.kind = "Array" ->
         << Code.lbracket >> \o CompactItems(value.arr, 1) \o << Code.rbracket >>
    [] value.kind = "Object" ->
         << Code.lbrace >> \o CompactEntries(value.obj, 1) \o << Code.rbrace >>

\* minify_json building its parse error as it builds a serializer error:
\* FormatError::new(e.to_string(), 0, 0).
MinifyLosingPosition(text) ==
  LET parsed == from_str(text) IN
  IF ~parsed.ok THEN Err(FormatError(to_string(parsed.err), 0, 0))
  ELSE Ok(to_string_value(parsed.v))

\* minify_json.  Serializing a Value into a String has no failing step, so
\* the second map_err (FormatError::new(e.to_string(), 0, 0)) is never taken.
minify_json(text) ==
  LET parsed == from_str(text) IN
  IF ~parsed.ok THEN Err(ParseFailure(parsed.err))
  ELSE Ok(to_string_value(parsed.v))

(***************************************************************************)
(* src/src/validator.rs                                                    *)
(***************************************************************************)
Max(a, b) == IF a >= b THEN a ELSE b

RECURSIVE collect_stats(_, _, _)
RECURSIVE CollectItems(_, _, _, _)
RECURSIVE CollectItemsSameDepth(_, _, _, _)
RECURSIVE CollectValues(_, _, _, _)
RECURSIVE CollectValuesFirstOnly(_, _, _, _)

\* The loop over an array walking its elements at the array's own depth.
CollectItemsSameDepth(arr, i, depth, stats) ==
  IF i > Len(arr) THEN stats
  ELSE CollectItemsSameDepth(arr, i + 1, depth, collect_stats(arr[i], depth, stats))

\* for v in arr { collect_stats(v, depth + 1, stats) }
CollectItems(arr, i, depth, stats) ==
  IF i > Len(arr) THEN stats
  ELSE CollectItems(arr, i + 1, depth, collect_stats(arr[i], depth + 1, stats))

\* The loop over an object's values stopping after the first one.
CollectValuesFirstOnly(obj, i, depth, stats) ==
  IF i > Len(obj) \/ i > 1 THEN stats
  ELSE CollectValuesFirstOnly(obj, i + 1, depth, collect_stats(obj[i][2], depth + 1, stats))

\* for v in map.values() { collect_stats(v, depth + 1, stats) }
CollectValues(obj, i, depth, stats) ==
  IF i > Len(obj) THEN stats
  ELSE CollectValues(obj, i + 1, depth, collect_stats(obj[i][2], depth + 1, stats))

\* collect_stats adding one to total_keys per object instead of map.len().
CollectStatsOneKeyPerObject(value, depth, stats) ==
  LET s0 == [stats EXCEPT !.max_depth = Max(stats.max_depth, depth)] IN
  CASE value.kind = "Object" ->
         CollectValues(value.obj, 1, depth,
           [s0 EXCEPT !.object_count = @ + 1, !.total_keys = @ + 1])
    [] value.kind = "Array" ->
         CollectItems(value.arr, 1, depth, [s0 EXCEPT !.array_count = @ + 1])
    [] value.kind = "String" -> [s0 EXCEPT !.string_count = @ + 1]
    [] value.kind = "Number" -> [s0 EXCEPT !.number_count = @ + 1]
    [] value.kind = "Bool" -> [s0 EXCEPT !.boolean_count = @ + 1]
    [] value.kind = "Null" -> [s0 EXCEPT !.null_count = @ + 1]

\* collect_stats: the statistics after the walk of value at depth.
collect_stats(value, depth, stats) ==
  LET s0 == [stats EXCEPT !.max_depth = Max(stats.max_depth, depth)] IN
  CASE value.kind = "Object" ->
         CollectValues(value.obj, 1, depth,
           [s0 EXCEPT !.object_count = @ + 1, !.total_keys = @ + Len(value.obj)])
    [] value.kind = "Array" ->
         CollectItems(value.arr, 1, depth, [s0 EXCEPT !.array_count = @ + 1])
    [] value.kind = "String" -> [s0 EXCEPT !.string_count = @ + 1]
    [] value.kind = "Number" -> [s0 EXCEPT !.number_count = @ + 1]
    [] value.kind = "Bool" -> [s0 EXCEPT !.boolean_count = @ + 1]
    [] value.kind = "Null" -> [s0 EXCEPT !.null_count = @ + 1]

\* validate_json
validate_json(text) ==
  LET parsed == from_str(text) IN
  IF parsed.ok THEN Valid(collect_stats(parsed.v, 0, DefaultStats))
  ELSE Invalid(ParseFailure(parsed.err))

(***************************************************************************)
(* src/src/highlighter.rs.  chars is the Vec<char> of the input; positions *)
(* count characters from 0.                                                *)
(***************************************************************************)
Digit(k) == Code.zero + k

\* mod colors
COLOR_STRING == << Code.hash, Code.c, Code.e, Digit(9), Digit(1), Digit(7), Digit(8) >>
COLOR_KEY == << Code.hash, Digit(9), Code.c, Code.d, Code.c, Code.f, Code.e >>
COLOR_NUMBER == << Code.hash, Code.b, Digit(5), Code.c, Code.e, Code.a, Digit(8) >>
COLOR_BOOLEAN == << Code.hash, Digit(5), Digit(6), Digit(9), Code.c, Code.d, Digit(6) >>
COLOR_NULL == << Code.hash, Digit(5), Digit(6), Digit(9), Code.c, Code.d, Digit(6) >>
COLOR_BRACKET == << Code.hash, Code.f, Code.f, Code.d, Digit(7), Digit(0), Digit(0) >>
COLOR_PUNCTUATION == << Code.hash, Code.d, Digit(4), Code.d, Digit(4), Code.d, Digit(4) >>

\* <pre style="margin:0;font-family:inherit;">
PreOpen ==
  << Code.lt, Code.p, Code.r, Code.e, Code.space, Code.s, Code.t, Code.y, Code.l,
     Code.e, Code.equals, Code.quote, Code.m, Code.a, Code.r, Code.g, Code.i,
     Code.n, Code.colon, Digit(0), Code.semicolon, Code.f, Code.o, Code.n,
     Code.t, Code.minus, Code.f, Code.a, Code.m, Code.i, Code.l, Code.y,
     Code.colon, Code.i, Code.n, Code.h, Code.e, Code.r, Code.i, Code.t,
     Code.semicolon, Code.quote, Code.gt >>

\* </pre>
PreClose == << Code.lt, Code.slash, Code.p, Code.r, Code.e, Code.gt >>

\* <span style="color:
SpanOpen ==
  << Code.lt, Code.s, Code.p, Code.a, Code.n, Code.space, Code.s, Code.t, Code.y,
     Code.l, Code.e, Code.equals, Code.quote, Code.c, Code.o, Code.l, Code.o,
     Code.r, Code.colon >>

\* ">
SpanOpenEnd == << Code.quote, Code.gt >>

\* </span>
SpanClose == << Code.lt, Code.slash, Code.s, Code.p, Code.a, Code.n, Code.gt >>

\* &lt; &gt; &amp;
EntityLt  == << Code.amp, Code.l, Code.t, Code.semicolon >>
EntityGt  == << Code.amp, Code.g, Code.t, Code.semicolon >>
EntityAmp == << Code.amp, Code.a, Code.m, Code.p, Code.semicolon >>

KeywordTrue  == << Code.t >> \o IdentRue
KeywordFalse == << Code.f >> \o IdentAlse
KeywordNull  == << Code.n >> \o IdentUll

\* chars[i]: the character at position i, and a panic (index out of bounds)
\* when there is none.
OutOfBounds == 0 - 2
Index(chars, i) == IF i < Len(chars) THEN chars[i + 1] ELSE OutOfBounds

\* char::is_ascii_digit
is_ascii_digit(ch) == IsDigit(ch)

\* char::is_alphanumeric (Alphabetic, Nd, Nl or No) for the code points
\* below 256.
is_alphanumeric(ch) ==
  \/ IsDigit(ch)
  \/ ch >= Code.upperA /\ ch <= Code.upperZ
  \/ ch >= Code.a /\ ch <= Code.z
  \/ ch \in {170, 178, 179, 181, 185, 186, 188, 189, 190}
  \/ ch >= 192 /\ ch <= 255 /\ ch \notin {215, 247}

\* push_colored without the closing tag.
PushColoredUnclosed(output, text, color) ==
  output \o SpanOpen \o color \o SpanOpenEnd \o text

\* push_colored
push_colored(output, text, color) ==
  output \o SpanOpen \o color \o SpanOpenEnd \o text \o SpanClose

\* push_escaped without the substitution.
PushUnescaped(output, c) == Append(output, c)

\* push_escaped
push_escaped(output, c) ==
  IF c = Code.lt THEN output \o EntityLt
  ELSE IF c = Code.gt THEN output \o EntityGt
  ELSE IF c = Code.amp THEN output \o EntityAmp
  ELSE Append(output, c)

\* matches_keyword without the look at the character after the keyword.
MatchesKeywordPrefix(chars, start, keyword) ==
  /\ start + Len(keyword) <= Len(chars)
  /\ \A j \in 0..(Len(keyword) - 1) : Index(chars, start + j) = keyword[j + 1]

\* matches_keyword
matches_keyword(chars, start, keyword) ==
  IF start + Len(keyword) > Len(chars) THEN FALSE
  ELSE IF \E j \in 0..(Len(keyword) - 1) : Index(chars, start + j) # keyword[j + 1]
  THEN FALSE
  ELSE LET end_pos == start + Len(keyword) IN
       IF end_pos < Len(chars) /\ is_alphanumeric(Index(chars, end_pos)) THEN FALSE
       ELSE TRUE

RECURSIVE StringChars(_, _, _)
RECURSIVE StringCharsUnguarded(_, _, _)
RECURSIVE StringCharsToQuote(_, _, _)

\* The loop of parse_string without the backslash arm: the string ends at
\* the first quote.
StringCharsToQuote(chars, i, result) ==
  IF ~(i < Len(chars)) THEN [content |-> result, end |-> i]
  ELSE LET c == Index(chars, i) IN
       IF c = Code.quote THEN [content |-> Append(result, Code.quote), end |-> i + 1]
       ELSE IF c = Code.lt THEN StringCharsToQuote(chars, i + 1, result \o EntityLt)
       ELSE IF c = Code.gt THEN StringCharsToQuote(chars, i + 1, result \o EntityGt)
       ELSE IF c = Code.amp THEN StringCharsToQuote(chars, i + 1, result \o EntityAmp)
       ELSE StringCharsToQuote(chars, i + 1, Append(result, c))

\* The loop of parse_string taking the character after a backslash without
\* looking whether there is one.
StringCharsUnguarded(chars, i, result) ==
  IF ~(i < Len(chars)) THEN [content |-> result, end |-> i]
  ELSE LET c == Index(chars, i) IN
       IF c = Code.quote THEN [content |-> Append(result, Code.quote), end |-> i + 1]
       ELSE IF c = Code.backslash
       THEN StringCharsUnguarded(chars, i + 2,
                                 result \o << Code.backslash, Index(chars, i + 1) >>)
       ELSE IF c = Code.lt THEN StringCharsUnguarded(chars, i + 1, result \o EntityLt)
       ELSE IF c = Code.gt THEN StringCharsUnguarded(chars, i + 1, result \o EntityGt)
       ELSE IF c = Code.amp THEN StringCharsUnguarded(chars, i + 1, result \o EntityAmp)
       ELSE StringCharsUnguarded(chars, i + 1, Append(result, c))

\* The loop of parse_string: while i < len { match chars[i] ... }, and the
\* unterminated string after it.
StringChars(chars, i, result) ==
  IF ~(i < Len(chars)) THEN [content |-> result, end |-> i]
  ELSE LET c == Index(chars, i) IN
       IF c = Code.quote THEN [content |-> Append(result, Code.quote), end |-> i + 1]
       ELSE IF c = Code.backslash /\ i + 1 < Len(chars)
       THEN StringChars(chars, i + 2, result \o << Code.backslash, Index(chars, i + 1) >>)
       ELSE IF c = Code.lt THEN StringChars(chars, i + 1, result \o EntityLt)
       ELSE IF c = Code.gt THEN StringChars(chars, i + 1, result \o EntityGt)
       ELSE IF c = Code.amp THEN StringChars(chars, i + 1, result \o EntityAmp)
       ELSE StringChars(chars, i + 1, Append(result, c))

\* parse_string: the token with its quotes, and the position after it.
parse_string(chars, start) == StringChars(chars, start + 1, << Code.quote >>)

\* if i < len && chars[i] is one of set { result.push(chars[i]); i += 1 }:
\* the position after it.
SkipIf(chars, i, set) ==
  IF i < Len(chars) /\ Index(chars, i) \in set THEN i + 1 ELSE i

\* The digit loop taking one digit at most.
SkipOneDigit(chars, i) == SkipIf(chars, i, Code.zero..(Code.zero + 9))

\* while i < len && chars[i].is_ascii_digit() { result.push(chars[i]); i += 1 }:
\* the position after it.
RECURSIVE SkipDigits(_, _)
SkipDigits(chars, i) ==
  IF i < Len(chars) /\ is_ascii_digit(Index(chars, i)) THEN SkipDigits(chars, i + 1)
  ELSE i

\* parse_number: minus, integer part, decimal part, exponent part.  Every
\* character it passes is pushed to result, so the token is the characters
\* from start to the position it ends at.
parse_number(chars, start) ==
  LET integer  == SkipDigits(chars, SkipIf(chars, start, {Code.minus}))
      decimal  == IF SkipIf(chars, integer, {Code.dot}) > integer
                  THEN SkipDigits(chars, integer + 1)
                  ELSE integer
      exponent == IF SkipIf(chars, decimal, {Code.e, Code.upperE}) > decimal
                  THEN SkipDigits(chars, SkipIf(chars, decimal + 1, {Code.plus, Code.minus}))
                  ELSE decimal
  IN  [content |-> SubSeq(chars, start + 1, exponent), end |-> exponent]

\* Vec::push, Vec::pop (nothing happens on an empty Vec) and Vec::last
PushBraceOnly(brace_stack, c) ==
  IF c = Code.lbrace THEN Append(brace_stack, c) ELSE brace_stack
Push(brace_stack, c) == Append(brace_stack, c)
\* A pop that takes nothing off.
PopNothing(brace_stack) == brace_stack
Pop(brace_stack) ==
  IF brace_stack = <<>> THEN <<>> ELSE SubSeq(brace_stack, 1, Len(brace_stack) - 1)
Last(brace_stack) ==
  IF brace_stack = <<>> THEN None ELSE Some(brace_stack[Len(brace_stack)])

\* The flag after a comma, true in any open bracket.
ExpectKeyInAnyBracket(brace_stack) == brace_stack # <<>>

\* expect_key = brace_stack.last() == Some(&'{')
ExpectKeyAfterComma(brace_stack) == Last(brace_stack) = Some(Code.lbrace)

\* The colour of a string token, never the key colour.
StringColorOnly(expect_key) == COLOR_STRING

\* let color = if expect_key { colors::KEY } else { colors::STRING }
StringColor(expect_key) == IF expect_key THEN COLOR_KEY ELSE COLOR_STRING

\* The locals of highlight_json at the head of its loop.
Locals(i, expect_key, brace_stack, output) ==
  [tag |-> "Scan", i |-> i, expect_key |-> expect_key,
   brace_stack |-> brace_stack, output |-> output]

\* highlight_json up to its loop: the empty input returns at once.
Start(chars) ==
  IF chars = <<>> THEN [Locals(0, FALSE, <<>>, <<>>) EXCEPT !.tag = "Returned"]
  ELSE Locals(0, FALSE, <<>>, PreOpen)

\* match c { ... }: one turn of the loop of highlight_json.
MatchChar(chars, st) ==
  LET i == st.i
      c == Index(chars, i)
  IN  IF c \in {Code.space, Code.tab, Code.lf, Code.cr}
      THEN Locals(i + 1, st.expect_key, st.brace_stack, Append(st.output, c))
      ELSE IF c = Code.lbrace
      THEN Locals(i + 1, TRUE, Push(st.brace_stack, c),
                  push_colored(st.output, << c >>, COLOR_BRACKET))
      ELSE IF c = Code.rbrace
      THEN Locals(i + 1, FALSE, Pop(st.brace_stack),
                  push_colored(st.output, << c >>, COLOR_BRACKET))
      ELSE IF c = Code.lbracket
      THEN Locals(i + 1, FALSE, Push(st.brace_stack, c),
                  push_colored(st.output, << c >>, COLOR_BRACKET))
      ELSE IF c = Code.rbracket
      THEN Locals(i + 1, FALSE, Pop(st.brace_stack),
                  push_colored(st.output, << c >>, COLOR_BRACKET))
      ELSE IF c = Code.colon
      THEN Locals(i + 1, FALSE, st.brace_stack,
                  push_colored(st.output, << c >>, COLOR_PUNCTUATION))
      ELSE IF c = Code.comma
      THEN Locals(i + 1, ExpectKeyAfterComma(st.brace_stack), st.brace_stack,
                  push_colored(st.output, << c >>, COLOR_PUNCTUATION))
      ELSE IF c = Code.quote
      THEN Locals(parse_string(chars, i).end, FALSE, st.brace_stack,
                  push_colored(st.output, parse_string(chars, i).content,
                               StringColor(st.expect_key)))
      ELSE IF c = Code.minus \/ IsDigit(c)
      THEN Locals(parse_number(chars, i).end, FALSE, st.brace_stack,
                  push_colored(st.output, parse_number(chars, i).content, COLOR_NUMBER))
      ELSE IF c = Code.t /\ matches_keyword(chars, i, KeywordTrue)
      THEN Locals(i + 4, FALSE, st.brace_stack,
                  push_colored(st.output, KeywordTrue, COLOR_BOOLEAN))
      ELSE IF c = Code.f /\ matches_keyword(chars, i, KeywordFalse)
      THEN Locals(i + 5, FALSE, st.brace_stack,
                  push_colored(st.output, KeywordFalse, COLOR_BOOLEAN))
      ELSE IF c = Code.n /\ matches_keyword(chars, i, KeywordNull)
      THEN Locals(i + 4, FALSE, st.brace_stack,
                  push_colored(st.output, KeywordNull, COLOR_NULL))
      ELSE Locals(i + 1, st.expect_key, st.brace_stack, push_escaped(st.output, c))

\* A read out of bounds anywhere in the turn is a panic: the call is over.
InBounds(ch) == ch # OutOfBounds
Panicked(text) == SelectSeq(text, InBounds) # text

LoopBody(chars, st) ==
  IF Panicked(MatchChar(chars, st).output)
  THEN [MatchChar(chars, st) EXCEPT !.tag = "Panic"]
  ELSE MatchChar(chars, st)

\* output.push_str("</pre>"); output
Finish(st) == [st EXCEPT !.tag = "Returned", !.output = @ \o PreClose]

\* while i < len { ... }, then the return.
RECURSIVE Loop(_, _)
Loop(chars, st) ==
  IF st.tag # "Scan" THEN st
  ELSE IF st.i < Len(chars) THEN Loop(chars, LoopBody(chars, st))
  ELSE Finish(st)

\* highlight_json: the String it returns.
highlight_json(text) == Loop(text, Start(text)).output

(***************************************************************************)
(* The input texts of the model.                                           *)
(***************************************************************************)
\* Longest string value, longest object key (in characters), deepest
\* nesting of the generated documents, widest Spaces(n).
MaxStrLen == 2
MaxKeyLen == 2
MaxDepth  == 2
MaxSpaces == 2

IndentStyles == {Spaces(n) : n \in 0..MaxSpaces} \cup {Tabs}

\* One character of a string as a JSON text may write it: itself, or an
\* escape sequence.
EscQuote     == << Code.backslash, Code.quote >>
EscBackslash == << Code.backslash, Code.backslash >>
EscLf        == << Code.backslash, Code.n >>
EscCr        == << Code.backslash, Code.r >>
EscTab       == << Code.backslash, Code.t >>
EscSoh       == << Code.backslash, Code.u, Code.zero, Code.zero, Code.zero, Code.zero + 1 >>

KeyItems ==
  { << Code.a >>, << Code.upperB >>, << Code.eacute >>, EscQuote, EscBackslash,
    EscSoh, EscLf }

StrItems ==
  KeyItems \cup { << Code.space >>, << Code.del >>, << Code.nel >>, EscCr, EscTab }

\* The concatenations of at most n items.
RECURSIVE Sources(_, _)
Sources(items, n) ==
  IF n = 0 THEN { <<>> }
  ELSE LET shorter == Sources(items, n - 1)
       IN  shorter \cup { s \o it : s \in shorter, it \in items }

Quoted(src) == << Code.quote >> \o src \o << Code.quote >>

NumberTexts ==
  { << Code.zero >>, << Code.zero + 7 >>, << Code.minus, Code.zero + 3 >>,
    << Code.zero + 1, Code.zero + 2 >> }

ScalarTexts ==
  { TextNull, TextTrue, TextFalse } \cup NumberTexts
    \cup { Quoted(src) : src \in Sources(StrItems, MaxStrLen) }

\* JSON texts of arrays and objects; w is the whitespace written around
\* every token.
ArrayText(items, w) ==
  << Code.lbracket >> \o w \o items \o w \o << Code.rbracket >>
ObjectText(entries, w) ==
  << Code.lbrace >> \o w \o entries \o w \o << Code.rbrace >>
EntryText(keysrc, val, w) == Quoted(keysrc) \o w \o << Code.colon >> \o w \o val
Both(x, y, w) == x \o w \o << Code.comma >> \o w \o y

KeyA == << Code.a >>
KeyB == << Code.upperB >>

Leaves(w) ==
  { TextNull, << Code.zero + 1, Code.zero + 2 >>, Quoted(KeyA),
    ArrayText(<<>>, w), ObjectText(<<>>, w) }

\* Documents nested at most d deep.
RECURSIVE Tree(_, _)
Tree(d, w) ==
  IF d = 0 THEN Leaves(w)
  ELSE LET inner == Tree(d - 1, w) IN
       inner
       \cup { ArrayText(x, w) : x \in inner }
       \cup { ArrayText(Both(TextTrue, x, w), w) : x \in inner }
       \cup { ObjectText(EntryText(KeyA, x, w), w) : x \in inner }
       \cup { ObjectText(Both(EntryText(KeyA, x, w),
                              EntryText(KeyB, TextNull, w), w), w) : x \in inner }
       \cup { ObjectText(Both(EntryText(KeyA, x, w),
                              EntryText(KeyA, TextFalse, w), w), w) : x \in inner }

\* Flat objects over all the keys: one entry, and two entries in both orders.
KeyedObjects ==
  { ObjectText(EntryText(k, TextTrue, <<>>), <<>>) : k \in Sources(KeyItems, MaxKeyLen) }
  \cup { ObjectText(Both(EntryText(k1, << Code.zero + 1 >>, <<>>),
                         EntryText(k2, << Code.zero + 2 >>, <<>>), <<>>), <<>>) :
           k1 \in Sources(KeyItems, 1), k2 \in Sources(KeyItems, 1) }

Whitespaces == { << Code.space >>, << Code.lf, Code.space >>, << Code.cr, Code.lf, Code.tab >> }

ValidTexts ==
  ScalarTexts \cup KeyedObjects \cup Tree(MaxDepth, <<>>)
    \cup UNION { Tree(1, w) : w \in Whitespaces }

\* Damaged texts: every proper prefix of a text, a text with one character
\* removed, and a text with one character put in.
Prefixes(t) == { SubSeq(t, 1, n) : n \in 0..(Len(t) - 1) }
Removals(t) == { SubSeq(t, 1, n - 1) \o SubSeq(t, n + 1, Len(t)) : n \in 1..Len(t) }
Insertions(t, chars) ==
  { SubSeq(t, 1, n) \o << ch >> \o SubSeq(t, n + 1, Len(t)) :
      n \in 0..Len(t), ch \in chars }

Strays == { Code.comma, Code.rbracket, Code.rbrace, Code.colon, Code.x, Code.eacute }

DamagedTexts ==
  UNION { Prefixes(t) \cup Removals(t) :
            t \in Tree(1, <<>>) \cup Tree(1, << Code.lf, Code.space >>)
                    \cup { Quoted(src) : src \in Sources(StrItems, 1) } }
  \cup UNION { Insertions(t, Strays) : t \in Tree(1, <<>>) }

\* Texts for the highlighter, valid JSON or not: runs of at most MaxTokens
\* brackets, separators and short tokens; two of them around a character
\* that changes none of the scan's state, or a keyword; strings, closed or
\* not, over the characters the string scan treats apart; numbers, keywords
\* and near-keywords; markup.
MaxTokens == 3

Tokens ==
  { << Code.lbrace >>, << Code.lbracket >>, << Code.rbrace >>, << Code.rbracket >>,
    << Code.comma >>, << Code.colon >>, Quoted(KeyA), << Code.zero + 7 >> }

RECURSIVE TokenRuns(_)
TokenRuns(n) ==
  IF n = 0 THEN { <<>> }
  ELSE TokenRuns(n - 1) \cup { run \o tok : run \in TokenRuns(n - 1), tok \in Tokens }

Fillers == { << Code.space >>, << Code.lf >>, << Code.x >>, << Code.lt >>, KeywordTrue }

Filled ==
  { first \o filler \o second :
      first \in Tokens, filler \in Fillers, second \in Tokens \cup { <<>> } }

ScanItems ==
  { << Code.lt >>, << Code.gt >>, << Code.amp >>, << Code.backslash >>,
    << Code.a >>, << Code.quote >> }

ScanStrings ==
  UNION { { << Code.quote >> \o src, Quoted(src) } : src \in Sources(ScanItems, MaxStrLen) }

TextScript == << Code.lt, Code.s, Code.c, Code.r, Code.i, Code.p, Code.t, Code.gt >>

MarkupSamples ==
  { TextScript,
    Quoted(TextScript),
    Quoted(<< Code.backslash >> \o TextScript),
    Quoted(<< Code.backslash, Code.lt, Code.s, Code.p, Code.a, Code.n >>),
    Quoted(<< Code.backslash >> \o EntityLt),
    Quoted(EntityAmp),
    ObjectText(EntryText(KeyA, Quoted(TextScript), <<>>), <<>>) }

NumberSamples ==
  { << Code.minus >>,
    << Digit(1), Code.dot, Digit(5), Code.e, Code.plus, Digit(3) >>,
    << Digit(1), Code.e >>,
    << Code.minus, Code.dot, Digit(5) >>,
    << Digit(1), Digit(2), Code.a >>,
    << Digit(1), Code.dot >>,
    << Digit(2), Code.upperE, Code.minus, Digit(1), Code.rbracket >>,
    << Digit(1), Code.dot, Code.e, Digit(5) >>,
    << Code.minus, Code.upperE, Digit(5) >>,
    << Code.minus, Code.minus, Digit(4), Digit(2), Code.dot, Digit(0), Digit(9), Code.dot >> }

KeywordSamples ==
  { KeywordTrue, KeywordFalse, KeywordNull,
    KeywordTrue \o << Code.x >>, KeywordNull \o << Code.eacute >>,
    KeywordFalse \o << Digit(1) >>, KeywordNull \o << Code.comma >>,
    << Code.t, Code.r, Code.u >>, << Code.n >>, << Code.f, Code.a >> }

\* A string after a comma and a character that starts no token, in an
\* object, in an array, and in an array in an object.
FillerSamples ==
  { << Code.lbrace, Code.comma, Code.x >> \o Quoted(KeyA),
    << Code.lbracket, Code.comma, Code.lt >> \o Quoted(KeyA),
    << Code.lbrace, Code.lbracket, Code.comma, Code.space, Code.amp >> \o Quoted(KeyA),
    << Code.lbrace >> \o Quoted(KeyA) \o << Code.colon, Digit(7), Code.comma, Code.lf, Code.gt >>
      \o Quoted(KeyB) }

MarkupTexts ==
  TokenRuns(MaxTokens) \cup Filled \cup ScanStrings \cup MarkupSamples
    \cup NumberSamples \cup KeywordSamples \cup FillerSamples

Inputs == ValidTexts \cup DamagedTexts \cup MarkupTexts

(***************************************************************************)
(* The state: the text the caller holds, and the last call with its result.*)
(***************************************************************************)
VARIABLES input, op, indent, result

vars == << input, op, indent, result >>

NoIndent == [style |-> "None", n |-> 0]
NoResult == [tag |-> "None"]

Init ==
  /\ input \in Inputs
  /\ op = "none"
  /\ indent = NoIndent
  /\ result = NoResult

\* A call is synchronous: while highlight_json is in its loop the caller
\* makes no other call, and after a panic none at all.
Scanning == op = "highlight" /\ result.tag = "Scan"
Idle == ~(op = "highlight" /\ result.tag \in {"Scan", "Panic"})

\* A call of format_json(input, style).
FormatJson(style) ==
  /\ Idle
  /\ op' = "format"
  /\ indent' = style
  /\ result' = format_json(input, style)
  /\ UNCHANGED input

\* A call of minify_json(input).
MinifyJson ==
  /\ Idle
  /\ op' = "minify"
  /\ indent' = NoIndent
  /\ result' = minify_json(input)
  /\ UNCHANGED input

\* A call of validate_json(input).
ValidateJson ==
  /\ Idle
  /\ op' = "validate"
  /\ indent' = NoIndent
  /\ result' = validate_json(input)
  /\ UNCHANGED input

\* A call of highlight_json(input), up to the head of its loop.
HighlightJson ==
  /\ Idle
  /\ op' = "highlight"
  /\ indent' = NoIndent
  /\ result' = Start(input)
  /\ UNCHANGED input

\* One turn of the loop of highlight_json.
ScanToken ==
  /\ Scanning
  /\ result.i < Len(input)
  /\ result' = LoopBody(input, result)
  /\ UNCHANGED << input, op, indent >>

\* The loop of highlight_json is over: it returns.
HighlightReturn ==
  /\ Scanning
  /\ ~(result.i < Len(input))
  /\ result' = Finish(result)
  /\ UNCHANGED << input, op, indent >>

Next ==
  \/ \E style \in IndentStyles : FormatJson(style)
  \/ MinifyJson
  \/ ValidateJson
  \/ HighlightJson
  \/ ScanToken
  \/ HighlightReturn

Spec == Init /\ [][Next]_vars

\* A call that has started keeps running: the loop of highlight_json takes
\* its next turn, and returns when the loop is over.
FairSpec == Spec /\ WF_vars(ScanToken) /\ WF_vars(HighlightReturn)

(***************************************************************************)
(* Several callers at once.  The four functions keep nothing outside their *)
(* locals, so a caller's state is its own argument, call and result: each  *)
(* variable holds one value per caller.  format_json, minify_json and      *)
(* validate_json run from call to return in one step; highlight_json takes *)
(* its loop turn by turn, in any interleaving with the other callers.      *)
(***************************************************************************)
NumCallers == 2

Callers == 1..NumCallers

\* The texts the callers pass: [,"a"  {,"a"  {"a":[7]}  "\<"  and the empty
\* text.
CallerTexts ==
  { <<>>,
    << Code.lbracket, Code.comma >> \o Quoted(KeyA),
    << Code.lbrace, Code.comma >> \o Quoted(KeyA),
    ObjectText(EntryText(KeyA, ArrayText(<< Code.zero + 7 >>, <<>>), <<>>), <<>>),
    Quoted(<< Code.backslash, Code.lt >>) }

ConcurrentInit ==
  /\ input = [th \in Callers |-> <<>>]
  /\ op = [th \in Callers |-> "none"]
  /\ indent = [th \in Callers |-> NoIndent]
  /\ result = [th \in Callers |-> NoResult]

CallerIdle(th) == ~(op[th] = "highlight" /\ result[th].tag \in {"Scan", "Panic"})

\* The caller calls with a text and an indent (NoIndent when it takes none)
\* and holds what came of it.
Call(th, name, text, style, outcome) ==
  /\ CallerIdle(th)
  /\ input' = [input EXCEPT ![th] = text]
  /\ op' = [op EXCEPT ![th] = name]
  /\ indent' = [indent EXCEPT ![th] = style]
  /\ result' = [result EXCEPT ![th] = outcome]

CallerFormats(th) ==
  \E text \in CallerTexts, style \in IndentStyles :
    Call(th, "format", text, style, format_json(text, style))

CallerMinifies(th) ==
  \E text \in CallerTexts : Call(th, "minify", text, NoIndent, minify_json(text))

CallerValidates(th) ==
  \E text \in CallerTexts : Call(th, "validate", text, NoIndent, validate_json(text))

CallerHighlights(th) ==
  \E text \in CallerTexts : Call(th, "highlight", text, NoIndent, Start(text))

\* A turn of the caller's loop that works on the bracket stack of whichever
\* caller is in its loop, as if brace_stack were one static Vec.
CallerScansSharedStack(th) ==
  LET other == IF \E o \in Callers : o # th /\ op[o] = "highlight" /\ result[o].tag = "Scan"
               THEN CHOOSE o \in Callers : o # th /\ op[o] = "highlight" /\ result[o].tag = "Scan"
               ELSE th
  IN  /\ op[th] = "highlight" /\ result[th].tag = "Scan"
      /\ result[th].i < Len(input[th])
      /\ result' = [result EXCEPT ![th] =
                      LoopBody(input[th],
                               [result[th] EXCEPT !.brace_stack = result[other].brace_stack])]
      /\ UNCHANGED << input, op, indent >>

\* One turn of the caller's loop of highlight_json.
CallerScans(th) ==
  /\ op[th] = "highlight" /\ result[th].tag = "Scan"
  /\ result[th].i < Len(input[th])
  /\ result' = [result EXCEPT ![th] = LoopBody(input[th], result[th])]
  /\ UNCHANGED << input, op, indent >>

\* The caller's highlight_json returns.
CallerReturns(th) ==
  /\ op[th] = "highlight" /\ result[th].tag = "Scan"
  /\ ~(result[th].i < Len(input[th]))
  /\ result' = [result EXCEPT ![th] = Finish(result[th])]
  /\ UNCHANGED << input, op, indent >>

ConcurrentNext ==
  \E th \in Callers :
    \/ CallerFormats(th)
    \/ CallerMinifies(th)
    \/ CallerValidates(th)
    \/ CallerHighlights(th)
    \/ CallerScans(th)
    \/ CallerReturns(th)

Concurrent == ConcurrentInit /\ [][ConcurrentNext]_vars

(***************************************************************************)
(* Reading the state.                                                      *)
(***************************************************************************)
\* The value tree of the input, when the input parses.
Parsed == from_str(input)

Formatted == op = "format" /\ result.tag = "Ok"

IsContainer(v) == v.kind \in {"Array", "Object"}

\* The children of a value, in the order the tree keeps them.
Children(v) ==
  IF v.kind = "Array" THEN v.arr
  ELSE IF v.kind = "Object" THEN [i \in 1..Len(v.obj) |-> v.obj[i][2]]
  ELSE <<>>

(***************************************************************************)
(* C1.  Reading the keys back from a formatted text.  A key is the text    *)
(* between the quote that opens an entry and the first quote-colon after   *)
(* it; an entry opens after a left brace or after a comma met while the    *)
(* innermost open bracket is a brace.  The stack holds, per open bracket,  *)
(* whether it is a brace and the last key read in it.                      *)
(***************************************************************************)
\* The index of the first quote at or after p that a colon follows.
RECURSIVE KeyEnd(_, _)
KeyEnd(out, p) ==
  IF p >= Len(out) THEN Len(out) + 1
  ELSE IF out[p] = Code.quote /\ out[p + 1] = Code.colon THEN p
  ELSE KeyEnd(out, p + 1)

\* The index of the quote closing the string value whose text starts at p.
RECURSIVE ValueEnd(_, _)
ValueEnd(out, p) ==
  IF p > Len(out) THEN Len(out) + 1
  ELSE IF out[p] = Code.backslash THEN ValueEnd(out, p + 2)
  ELSE IF out[p] = Code.quote THEN p
  ELSE ValueEnd(out, p + 1)

\* The number of keys read from position p on, or -1 when some key is not
\* above the key read before it in the same object.
RECURSIVE KeysRead(_, _, _, _)
KeysRead(out, p, stack, expectKey) ==
  IF p > Len(out) THEN 0
  ELSE LET ch == out[p] IN
    IF ch = Code.lbrace
    THEN KeysRead(out, p + 1,
           << [brace |-> TRUE, any |-> FALSE, last |-> <<>>] >> \o stack, TRUE)
    ELSE IF ch = Code.lbracket
    THEN KeysRead(out, p + 1,
           << [brace |-> FALSE, any |-> FALSE, last |-> <<>>] >> \o stack, FALSE)
    ELSE IF ch \in {Code.rbrace, Code.rbracket}
    THEN KeysRead(out, p + 1, IF stack = <<>> THEN stack ELSE Tail(stack), FALSE)
    ELSE IF ch = Code.comma
    THEN KeysRead(out, p + 1, stack, stack # <<>> /\ Head(stack).brace)
    ELSE IF ch = Code.quote /\ expectKey
    THEN LET q   == KeyEnd(out, p + 1)
             key == SubSeq(out, p + 1, q - 1)
             top == Head(stack)
             rest == KeysRead(out, q + 2,
                       << [top EXCEPT !.any = TRUE, !.last = key] >> \o Tail(stack), FALSE)
         IN  IF q > Len(out) \/ (top.any /\ ~StrLess(top.last, key)) \/ rest < 0
             THEN 0 - 1
             ELSE 1 + rest
    ELSE IF ch = Code.quote
    THEN KeysRead(out, ValueEnd(out, p + 1) + 1, stack, FALSE)
    ELSE KeysRead(out, p + 1, stack, expectKey)

\* The number of keys of a tree: the entries of all its objects.
RECURSIVE KeyCount(_)
KeyCount(v) ==
  LET below[i \in 0..Len(Children(v))] ==
        IF i = 0 THEN 0 ELSE below[i - 1] + KeyCount(Children(v)[i])
  IN  (IF v.kind = "Object" THEN Len(v.obj) ELSE 0) + below[Len(Children(v))]

\* C1: whatever the order of the keys in the input text, in the text that
\* format_json returns the keys of every object, at every nesting level,
\* come in strictly ascending code-point order, and every key of the tree
\* is among them.
C1_SortedKeys ==
  Formatted => KeysRead(result.val, 1, <<>>, FALSE) = KeyCount(Parsed.v)

\* An object holding an object has been formatted, each written in the
\* input with the larger key first: {"a":{"a":null,"B":null},"B":null}.
C1_Witness ==
  /\ Formatted
  /\ input = ObjectText(Both(EntryText(KeyA,
                 ObjectText(Both(EntryText(KeyA, TextNull, <<>>),
                                 EntryText(KeyB, TextNull, <<>>), <<>>), <<>>), <<>>),
               EntryText(KeyB, TextNull, <<>>), <<>>), <<>>)

(***************************************************************************)
(* C2, C3.  Formatting and parsing again.                                  *)
(***************************************************************************)
\* C2: the text format_json returns is valid JSON and parses to the value
\* tree of the input: same kinds, same strings, same keys.
C2_FormatKeepsValue ==
  Formatted =>
    LET again == from_str(result.val) IN again.ok /\ again.v = Parsed.v

\* C3: formatting the text format_json returned, with the same indent
\* style, succeeds and returns that text unchanged.
C3_FormatIdempotent ==
  Formatted => format_json(result.val, indent) = Ok(result.val)

(***************************************************************************)
(* C4.  The layout of a non-empty array or object.                         *)
(***************************************************************************)
\* The indent unit: n spaces for Spaces(n), one tab for Tabs.
IndentUnit(style) ==
  IF style.style = "Tabs" THEN << Code.tab >> ELSE [i \in 1..style.n |-> Code.space]

\* k copies of a unit.
Copies(unit, k) ==
  IF unit = <<>> THEN <<>>
  ELSE [i \in 1..(k * Len(unit)) |-> unit[((i - 1) % Len(unit)) + 1]]

\* What precedes child i on its line after the indentation: nothing in an
\* array, "key": and one space in an object.
EntryPrefix(v, i) ==
  IF v.kind = "Object"
  THEN << Code.quote >> \o v.obj[i][1] \o << Code.quote, Code.colon, Code.space >>
  ELSE <<>>

\* The text of a value at depth d.  A scalar or an empty container is
\* written as format_value writes it standing alone; a non-empty container
\* is its opening bracket, a line feed, each child on a line of its own
\* after d + 1 units, a comma after every child but the last, then the
\* closing bracket after d units.
RECURSIVE Layout(_, _, _)
Layout(v, unit, d) ==
  IF Children(v) = <<>> THEN format_value(v, unit, d, <<>>)
  ELSE LET n == Len(Children(v))
           lines[i \in 0..n] ==
             IF i = 0 THEN <<>>
             ELSE lines[i - 1] \o Copies(unit, d + 1) \o EntryPrefix(v, i)
                    \o Layout(Children(v)[i], unit, d + 1)
                    \o (IF i < n THEN << Code.comma >> ELSE <<>>) \o << Code.lf >>
       IN  << IF v.kind = "Array" THEN Code.lbracket ELSE Code.lbrace, Code.lf >>
             \o lines[n] \o Copies(unit, d)
             \o << IF v.kind = "Array" THEN Code.rbracket ELSE Code.rbrace >>

\* C4: the text format_json returns lays every non-empty array and object
\* out as Layout says, with the indent unit of the style, and does not end
\* in a line feed.
C4_Layout ==
  Formatted =>
    /\ result.val = Layout(Parsed.v, IndentUnit(indent), 0)
    /\ result.val[Len(result.val)] # Code.lf

\* A container with two children, one of them a container with two
\* children, has been formatted with a unit that is not empty.
C4_Witness ==
  /\ Formatted
  /\ IndentUnit(indent) # <<>>
  /\ Len(Children(Parsed.v)) = 2
  /\ \E i \in 1..2 : Len(Children(Children(Parsed.v)[i])) = 2

(***************************************************************************)
(* C5.  Empty containers.  No string of the inputs holds a left bracket or *)
(* a left brace, so each one in the output opens a container.              *)
(***************************************************************************)
CountChar(out, ch) == Cardinality({p \in 1..Len(out) : out[p] = ch})
CountPair(out, ch1, ch2) ==
  Cardinality({p \in 1..(Len(out) - 1) : out[p] = ch1 /\ out[p + 1] = ch2})

\* The number of containers of a kind in a tree, all of them or the empty
\* ones only.
RECURSIVE CountKind(_, _, _)
CountKind(v, kind, emptyOnly) ==
  LET below[i \in 0..Len(Children(v))] ==
        IF i = 0 THEN 0 ELSE below[i - 1] + CountKind(Children(v)[i], kind, emptyOnly)
  IN  (IF v.kind = kind /\ (emptyOnly => Children(v) = <<>>) THEN 1 ELSE 0)
        + below[Len(Children(v))]

\* C5: in the text format_json returns, every empty array is the two
\* characters [] and every empty object the two characters {}, at the root
\* and at every depth, for every indent style: the left brackets that a
\* right bracket follows at once are as many as the empty arrays of the
\* tree, and likewise for braces.
C5_EmptyContainers ==
  Formatted =>
    /\ CountChar(result.val, Code.lbracket) = CountKind(Parsed.v, "Array", FALSE)
    /\ CountPair(result.val, Code.lbracket, Code.rbracket)
         = CountKind(Parsed.v, "Array", TRUE)
    /\ CountChar(result.val, Code.lbrace) = CountKind(Parsed.v, "Object", FALSE)
    /\ CountPair(result.val, Code.lbrace, Code.rbrace)
         = CountKind(Parsed.v, "Object", TRUE)
    /\ Parsed.v = Array(<<>>) => result.val = << Code.lbracket, Code.rbracket >>
    /\ Parsed.v = Object(<<>>) => result.val = << Code.lbrace, Code.rbrace >>

\* An empty array two levels down, {"a":[[]]}, has been formatted with tabs.
C5_Witness ==
  /\ Formatted
  /\ indent = Tabs
  /\ Parsed.v = Object(<< << KeyA, Array(<< Array(<<>>) >>) >> >>)

(***************************************************************************)
(* C6.  The characters of a String value.                                  *)
(***************************************************************************)
HexDigits ==
  << Code.zero, Code.zero + 1, Code.zero + 2, Code.zero + 3, Code.zero + 4,
     Code.zero + 5, Code.zero + 6, Code.zero + 7, Code.zero + 8, Code.nine,
     Code.a, Code.b, Code.c, Code.c + 1, Code.e, Code.f >>

\* \u00XX for a code point below 0x100.
U00(ch) ==
  << Code.backslash, Code.u, Code.zero, Code.zero,
     HexDigits[(ch \div 16) + 1], HexDigits[(ch % 16) + 1] >>

TwoCharEscape(ch) ==
  << Code.backslash,
     CASE ch = Code.quote -> Code.quote
       [] ch = Code.backslash -> Code.backslash
       [] ch = Code.lf -> Code.n
       [] ch = Code.cr -> Code.r
       [] ch = Code.tab -> Code.t >>

HasTwoCharEscape(ch) ==
  ch \in {Code.quote, Code.backslash, Code.lf, Code.cr, Code.tab}

\* A string between quotes, each character written as Esc writes it.
Rendered(str, Esc(_)) ==
  LET upTo[i \in 0..Len(str)] == IF i = 0 THEN <<>> ELSE upTo[i - 1] \o Esc(str[i])
  IN  << Code.quote >> \o upTo[Len(str)] \o << Code.quote >>

\* Escaping as the specification words it: \u00XX below 0x20 only.
EscapeBelow20(ch) ==
  IF HasTwoCharEscape(ch) THEN TwoCharEscape(ch)
  ELSE IF ch < 32 THEN U00(ch)
  ELSE << ch >>

\* Escaping of every control character: below 0x20, and 0x7F to 0x9F.
EscapeControls(ch) ==
  IF HasTwoCharEscape(ch) THEN TwoCharEscape(ch)
  ELSE IF ch < 32 \/ (ch >= 127 /\ ch <= 159) THEN U00(ch)
  ELSE << ch >>

FormattedString == Formatted /\ Parsed.v.kind = "String"

\* C6 as claimed: in a String value the quote, backslash, line feed,
\* carriage return and tab become their two-character escapes, every other
\* code point below 0x20 becomes \u00XX, and every other character is
\* written unchanged.
C6_EscapeBelow20 ==
  FormattedString => result.val = Rendered(Parsed.v.s, EscapeBelow20)

\* C6 amended: ... every other control character, that is every other code
\* point below 0x20 or from 0x7F to 0x9F, becomes \u00XX with four
\* lowercase hex digits, and every other character is written unchanged.
C6_EscapeControls ==
  FormattedString => result.val = Rendered(Parsed.v.s, EscapeControls)

\* A string holding U+007F next to a character with a two-character escape
\* has been formatted.
C6_Witness ==
  /\ FormattedString
  /\ Parsed.v.s = << Code.del, Code.quote >>

(***************************************************************************)
(* C7, C8, C9.  Failure.                                                   *)
(***************************************************************************)
Called == op \in {"format", "minify", "validate"}

\* The last call failed, and the FormatError it reported.
Failed == IF op = "validate" THEN ~result.is_valid ELSE Called /\ result.tag = "Err"
ReportedError == IF op = "validate" THEN result.error.val ELSE result.error

\* C7: validate_json returns is_valid = true and no error when the input
\* parses, is_valid = false with an error and all eight statistics at zero
\* when it does not; the error is there iff is_valid is false.
C7_ValidationResult ==
  op = "validate" =>
    /\ result.is_valid = Parsed.ok
    /\ result.error.some = ~result.is_valid
    /\ ~result.is_valid =>
         /\ Cardinality(DOMAIN result.stats) = 8
         /\ \A field \in DOMAIN result.stats : result.stats[field] = 0

\* validate_json has been called on a text that does not parse.
C7_Witness == op = "validate" /\ ~result.is_valid

\* C8: each of format_json, minify_json and validate_json fails exactly on
\* the texts the parser rejects, and then reports the parser's message,
\* line and column unchanged, so the three report the same error;
\* format_json and minify_json return the error and no text.
C8_ParserErrorVerbatim ==
  Called =>
    /\ Failed = ~Parsed.ok
    /\ Failed =>
         /\ ReportedError =
              [message |-> << Parsed.err.code, Parsed.err.line, Parsed.err.column >>,
               line |-> Parsed.err.line, column |-> Parsed.err.column]
         /\ ReportedError = validate_json(input).error.val
         /\ op # "validate" => DOMAIN result = {"tag", "error"}

\* minify_json has failed on a text whose error is on its second line.
C8_Witness == op = "minify" /\ Failed /\ ReportedError.line = 2

\* C9: every FormatError reported by format_json, minify_json or
\* validate_json has line >= 1 and column >= 1.
C9_OneBasedPosition ==
  (Called /\ Failed) => ReportedError.line >= 1 /\ ReportedError.column >= 1

(***************************************************************************)
(* C10.  max_depth.                                                        *)
(***************************************************************************)
\* The largest number of arrays and objects around a value of the tree.
RECURSIVE Nesting(_)
Nesting(v) ==
  IF Children(v) = <<>> THEN 0
  ELSE LET deepest == CHOOSE i \in 1..Len(Children(v)) :
                        \A j \in 1..Len(Children(v)) :
                          Nesting(Children(v)[j]) <= Nesting(Children(v)[i])
       IN  1 + Nesting(Children(v)[deepest])

\* A tree with the children of every container in the opposite order.
RECURSIVE Mirrored(_)
Mirrored(v) ==
  IF v.kind = "Array"
  THEN Array([i \in 1..Len(v.arr) |-> Mirrored(v.arr[Len(v.arr) + 1 - i])])
  ELSE IF v.kind = "Object"
  THEN Object([i \in 1..Len(v.obj) |->
                 << v.obj[Len(v.obj) + 1 - i][1], Mirrored(v.obj[Len(v.obj) + 1 - i][2]) >>])
  ELSE v

Validated == op = "validate" /\ result.is_valid

\* C10: for a valid input max_depth is the largest number of arrays and
\* objects around any value of the tree (0 for a scalar or an empty
\* container at the root), and walking the children in the opposite order
\* gives the same.
C10_MaxDepth ==
  Validated =>
    /\ result.stats.max_depth = Nesting(Parsed.v)
    /\ collect_stats(Mirrored(Parsed.v), 0, DefaultStats).max_depth
         = result.stats.max_depth

\* [true,[null]] has been validated: two children at different depths.
C10_Witness ==
  /\ Validated
  /\ Parsed.v = Array(<< Bool(TRUE), Array(<< Null >>) >>)

(***************************************************************************)
(* C11, C12.  The counters.  Nodes lists every value of a tree once: the   *)
(* value itself, then the values of each of its children.                  *)
(***************************************************************************)
RECURSIVE Nodes(_)
Nodes(v) ==
  LET below[i \in 0..Len(Children(v))] ==
        IF i = 0 THEN << v >> ELSE below[i - 1] \o Nodes(Children(v)[i])
  IN  below[Len(Children(v))]

OfKind(nodes, kind) == Cardinality({i \in 1..Len(nodes) : nodes[i].kind = kind})

\* C11: for a valid input each of the six counters is the number of values
\* of its kind anywhere in the parsed tree, and the six add up to the number
\* of values of the tree.
C11_Counts ==
  Validated =>
    LET nodes == Nodes(Parsed.v)
        stats == result.stats
    IN  /\ stats.object_count = OfKind(nodes, "Object")
        /\ stats.array_count = OfKind(nodes, "Array")
        /\ stats.string_count = OfKind(nodes, "String")
        /\ stats.number_count = OfKind(nodes, "Number")
        /\ stats.boolean_count = OfKind(nodes, "Bool")
        /\ stats.null_count = OfKind(nodes, "Null")
        /\ stats.object_count + stats.array_count + stats.string_count
             + stats.number_count + stats.boolean_count + stats.null_count
             = Len(nodes)

\* {"a":[true,null],"B":null} has been validated: an object of two entries,
\* one of them an array of two values.
C11_Witness ==
  /\ Validated
  /\ Parsed.v = Object(<< << KeyB, Null >>,
                          << KeyA, Array(<< Bool(TRUE), Null >>) >> >>)

RECURSIVE SumKeys(_, _)
SumKeys(nodes, i) ==
  IF i > Len(nodes) THEN 0
  ELSE (IF nodes[i].kind = "Object" THEN Len(nodes[i].obj) ELSE 0) + SumKeys(nodes, i + 1)

\* C12: for a valid input total_keys is the sum of the numbers of keys of
\* all objects of the tree, whatever their depth; an empty object adds
\* nothing and a key name used in two objects is counted in both.
C12_TotalKeys ==
  Validated => result.stats.total_keys = SumKeys(Nodes(Parsed.v), 1)

\* {"a":{"a":null},"B":null} has been validated: key a in two objects, and
\* an object of two keys.
C12_Witness ==
  /\ Validated
  /\ Parsed.v = Object(<< << KeyB, Null >>,
                          << KeyA, Object(<< << KeyA, Null >> >>) >> >>)
  /\ result.stats.total_keys = 3

(***************************************************************************)
(* C13.  The scan of highlight_json ends.                                  *)
(***************************************************************************)
Returned == op = "highlight" /\ result.tag = "Returned"

\* No read out of bounds, the position never beyond the end of the input,
\* and the return exactly at the end, with a text.
ScanInBounds ==
  op = "highlight" =>
    /\ result.tag # "Panic"
    /\ result.i <= Len(input)
    /\ result.tag = "Returned" =>
         /\ result.i = Len(input)
         /\ \A k \in 1..Len(result.output) : result.output[k] >= 0

\* Every turn of the loop moves the position on by one character or more.
ScanAdvances == Scanning /\ Scanning' => result'.i > result.i

\* C13: highlight_json returns a text on every input, valid JSON or not:
\* no turn of its loop reads beyond the end of the input or fails, every
\* turn moves the position on by at least one character, the loop ends with
\* the position exactly at the end of the input, and every call returns.
C13_Terminates ==
  /\ []ScanInBounds
  /\ [][ScanAdvances]_vars
  /\ (Scanning ~> Returned)

\* highlight_json has returned on "\ : a string that is not closed and ends
\* in a backslash.
C13_Witness ==
  /\ Returned
  /\ input = << Code.quote, Code.backslash >>

(***************************************************************************)
(* C14.  The colour of a string token.  Added is what a turn of the loop   *)
(* appends to the output.                                                  *)
(***************************************************************************)
Added == SubSeq(result'.output, Len(result.output) + 1, Len(result'.output))

\* The loop is at character c and takes a turn.
TurnAt(c) ==
  /\ Scanning
  /\ result.i < Len(input)
  /\ input[result.i + 1] = c
  /\ result' # result

\* The text from position from (counted from 1) on starts with part.
StartsWith(text, from, part) ==
  /\ from >= 1
  /\ from + Len(part) - 1 <= Len(text)
  /\ \A j \in 1..Len(part) : text[from + j - 1] = part[j]

EndsWith(text, part) == StartsWith(text, Len(text) - Len(part) + 1, part)

\* Added is one span of the colour around a text that opens with first.
SpanOf(color, first) ==
  /\ StartsWith(Added, 1, SpanOpen \o color \o SpanOpenEnd \o first)
  /\ EndsWith(Added, SpanClose)

\* The last character before the position that is no whitespace, 0 if none.
RECURSIVE TokenBefore(_, _)
TokenBefore(chars, i) ==
  IF i = 0 THEN 0
  ELSE IF chars[i] \in {Code.space, Code.tab, Code.lf, Code.cr} THEN TokenBefore(chars, i - 1)
  ELSE chars[i]

\* C14: a string token is written in the key colour when expect_key is true
\* as its opening quote is scanned and in the string colour otherwise, the
\* two colours differ, and a string that comes first after a left brace, or
\* after a comma scanned with a left brace on top of the stack, has the key
\* colour whether or not a colon follows.
C14_KeyColour ==
  [][TurnAt(Code.quote) =>
       /\ COLOR_KEY # COLOR_STRING
       /\ SpanOf(IF result.expect_key THEN COLOR_KEY ELSE COLOR_STRING, << Code.quote >>)
       /\ TokenBefore(input, result.i) = Code.lbrace => SpanOf(COLOR_KEY, << Code.quote >>)
       /\ ( /\ TokenBefore(input, result.i) = Code.comma
            /\ Last(result.brace_stack) = Some(Code.lbrace) )
          => SpanOf(COLOR_KEY, << Code.quote >>)
       /\ ( /\ TokenBefore(input, result.i) = Code.comma
            /\ Last(result.brace_stack) # Some(Code.lbrace) )
          => SpanOf(COLOR_STRING, << Code.quote >>)]_vars

\* In {"a"} the string has been written in the key colour, and no colon
\* follows it.
C14_Witness ==
  /\ Scanning
  /\ input = << Code.lbrace >> \o Quoted(KeyA) \o << Code.rbrace >>
  /\ result.i = 4
  /\ EndsWith(result.output,
              SpanOpen \o COLOR_KEY \o SpanOpenEnd \o Quoted(KeyA) \o SpanClose)

(***************************************************************************)
(* C15, C16.  Markup characters.                                           *)
(***************************************************************************)
\* The text inside the span a turn of the loop appends.
SpanText ==
  SubSeq(Added, Len(SpanOpen) + Len(COLOR_STRING) + Len(SpanOpenEnd) + 1,
         Len(Added) - Len(SpanClose))

Markup == {Code.lt, Code.gt, Code.amp}

Entity(c) ==
  IF c = Code.lt THEN EntityLt ELSE IF c = Code.gt THEN EntityGt ELSE EntityAmp

\* The number of positions of the text where the part starts.
Occurrences(text, part) ==
  Cardinality({k \in 1..Len(text) : StartsWith(text, k, part)})

\* C15: in a string token, closed or not, every <, > and & of the input is
\* written as &lt;, &gt; or &amp; and never as the character itself,
\* whatever stands before it in the string: the span of the token holds no
\* < and no >, each & in it opens an entity, and it holds as many entities
\* of each kind as the token has characters of that kind.
C15_StringsEscaped ==
  [][TurnAt(Code.quote) =>
       /\ \A k \in 1..Len(SpanText) :
            /\ SpanText[k] \notin {Code.lt, Code.gt}
            /\ SpanText[k] = Code.amp =>
                 \E c \in Markup : StartsWith(SpanText, k, Entity(c))
       /\ \A c \in {Code.lt, Code.gt} :
            Occurrences(SpanText, Entity(c))
              = Occurrences(SubSeq(input, result.i + 1, result'.i), << c >>)]_vars

\* C16: the text highlight_json returns never holds <script>, and holds
\* &lt;script&gt; whenever the input holds <script>.
C16_NoScript ==
  Returned =>
    /\ Occurrences(result.output, TextScript) = 0
    /\ Occurrences(input, TextScript) > 0 =>
         Occurrences(result.output,
                     EntityLt \o SubSeq(TextScript, 2, Len(TextScript) - 1) \o EntityGt) > 0

(***************************************************************************)
(* C17.  The wrapper and the spans.                                        *)
(***************************************************************************)
\* The opening and closing span tags of the text are paired: right after
\* every opening tag comes a closing one, and right before every closing
\* tag an opening one, with no span tag between the two.
SpansPaired(text) ==
  LET opens  == {k \in 1..Len(text) : StartsWith(text, k, SpanOpen)}
      closes == {k \in 1..Len(text) : StartsWith(text, k, SpanClose)}
      Paired(o, c) == o < c /\ \A t \in opens \cup closes : ~(o < t /\ t < c)
  IN  /\ \A o \in opens : \E c \in closes : Paired(o, c)
      /\ \A c \in closes : \E o \in opens : Paired(o, c)

\* C17: for the empty text highlight_json returns the empty text, with no
\* markup; for any other input the text it returns starts with the opening
\* pre tag, which it holds once, ends with </pre>, which it holds once, and
\* between them every span that is opened is closed before the next opens.
C17_Wrapper ==
  Returned =>
    IF input = <<>> THEN result.output = <<>>
    ELSE /\ StartsWith(result.output, 1, PreOpen)
         /\ EndsWith(result.output, PreClose)
         /\ Occurrences(result.output, PreOpen) = 1
         /\ Occurrences(result.output, PreClose) = 1
         /\ SpansPaired(SubSeq(result.output, Len(PreOpen) + 1,
                               Len(result.output) - Len(PreClose)))

\* highlight_json has returned on {"a"}: three spans.
C17_Witness ==
  /\ Returned
  /\ input = << Code.lbrace >> \o Quoted(KeyA) \o << Code.rbrace >>
  /\ Occurrences(result.output, SpanClose) = 3

(***************************************************************************)
(* C18.  The functions are pure.                                           *)
(***************************************************************************)
\* What the call returns when it runs alone on the text.
Alone(name, text, style) ==
  IF name = "format" THEN format_json(text, style)
  ELSE IF name = "minify" THEN minify_json(text)
  ELSE IF name = "validate" THEN validate_json(text)
  ELSE highlight_json(text)

TurnAtValue ==
  \/ TurnAt(Code.quote)
  \/ TurnAt(Code.minus)
  \/ \E c \in Code.zero..(Code.zero + 9) : TurnAt(c)
  \/ TurnAt(Code.t) /\ matches_keyword(input, result.i, KeywordTrue)
  \/ TurnAt(Code.f) /\ matches_keyword(input, result.i, KeywordFalse)
  \/ TurnAt(Code.n) /\ matches_keyword(input, result.i, KeywordNull)

\* The loop is at a white space character or at a character no token starts
\* with.
TurnAtOther ==
  /\ Scanning
  /\ result.i < Len(input)
  /\ result' # result
  /\ ~TurnAtValue
  /\ input[result.i + 1] \notin {Code.lbrace, Code.rbrace, Code.lbracket, Code.rbracket,
                                 Code.colon, Code.comma}

\* C19: expect_key is false when the loop starts; a left brace sets it; a
\* comma sets it exactly when a left brace is on top of the stack; a right
\* brace, a bracket, a colon and every string, number and keyword clear it;
\* white space and unknown characters leave it alone.  So it is never set
\* unless a left brace is on top of the stack.
C19_ExpectKey ==
  /\ [](Scanning => /\ result.i = 0 => ~result.expect_key
                    /\ result.expect_key => Last(result.brace_stack) = Some(Code.lbrace))
  /\ [][/\ TurnAt(Code.lbrace) => result'.expect_key
        /\ TurnAt(Code.comma) =>
             result'.expect_key = (/\ result.brace_stack # <<>>
                                   /\ result.brace_stack[Len(result.brace_stack)] = Code.lbrace)
        /\ \A c \in {Code.rbrace, Code.lbracket, Code.rbracket, Code.colon} :
             TurnAt(c) => ~result'.expect_key
        /\ TurnAtValue => ~result'.expect_key
        /\ TurnAtOther => result'.expect_key = result.expect_key]_vars

\* The loop has scanned [ { , and the flag is set, or { [ , and it is not.
C19_Witness ==
  /\ Scanning
  /\ result.i = 3
  /\ input[3] = Code.comma
  /\ \/ input[1] = Code.lbracket /\ input[2] = Code.lbrace /\ result.expect_key
     \/ input[1] = Code.lbrace /\ input[2] = Code.lbracket /\ ~result.expect_key

(***************************************************************************)
(* C20.  The bracket stack.                                                *)
(***************************************************************************)
\* The stack without its top entry; the empty stack when it has none.
WithoutTop(stack) ==
  IF Len(stack) = 0 THEN stack ELSE [k \in 1..(Len(stack) - 1) |-> stack[k]]

\* The stack the bracket tokens of a run of tokens leave, one after the
\* other; what is not a bracket leaves it alone.
RECURSIVE StackOf(_, _)
StackOf(brackets, n) ==
  IF n = 0 THEN <<>>
  ELSE IF brackets[n] \in {Code.lbrace, Code.lbracket}
       THEN StackOf(brackets, n - 1) \o << brackets[n] >>
  ELSE IF brackets[n] \in {Code.rbrace, Code.rbracket}
       THEN WithoutTop(StackOf(brackets, n - 1))
  ELSE StackOf(brackets, n - 1)

\* No string is open in the first n characters of the text.
NoQuote(text, n) == \A k \in 1..n : text[k] # Code.quote

\* C20: a left brace and a left bracket each put themselves on top of
\* brace_stack; a right brace and a right bracket each take the top entry
\* off, whatever it is, and leave an empty stack empty; no other turn touches
\* the stack.  So the stack holds only left braces and left brackets, is
\* never higher than the number of characters scanned, and, while no string
\* has been scanned, is the stack the brackets scanned so far leave.
C20_BraceStack ==
  /\ [](Scanning =>
          /\ result.brace_stack \in Seq({Code.lbrace, Code.lbracket})
          /\ Len(result.brace_stack) >= 0
          /\ Len(result.brace_stack) <= result.i
          /\ NoQuote(input, result.i) =>
               result.brace_stack = StackOf(input, result.i))
  /\ [][/\ \A c \in {Code.lbrace, Code.lbracket} :
             TurnAt(c) => result'.brace_stack = result.brace_stack \o << c >>
        /\ \A c \in {Code.rbrace, Code.rbracket} :
             TurnAt(c) => result'.brace_stack = WithoutTop(result.brace_stack)
        /\ (TurnAtValue \/ TurnAtOther \/ TurnAt(Code.colon) \/ TurnAt(Code.comma)) =>
             result'.brace_stack = result.brace_stack]_vars

\* The loop has scanned [ } ] : the right brace took the left bracket off
\* and the right bracket found the stack empty.
C20_Witness ==
  /\ Scanning
  /\ result.i = 3
  /\ input[1] = Code.lbracket
  /\ input[2] = Code.rbrace
  /\ input[3] = Code.rbracket
  /\ result.brace_stack = <<>>

(***************************************************************************)
(* C21.  White space and characters that start no token.                   *)
(***************************************************************************)
WhitespaceChars == {Code.space, Code.tab, Code.lf, Code.cr}

\* The characters a token can start with, whatever follows them.
TokenStarts ==
  {Code.lbrace, Code.rbrace, Code.lbracket, Code.rbracket, Code.colon, Code.comma,
   Code.quote, Code.minus, Code.t, Code.f, Code.n} \cup Code.zero..(Code.zero + 9)

\* The last character before the position that can start a token, 0 if
\* there is none: every token scanned before the position starts at such a
\* character, so none lies after the one found.
RECURSIVE LastTokenStart(_, _)
LastTokenStart(chars, i) ==
  IF i = 0 THEN 0
  ELSE IF chars[i] \in TokenStarts THEN chars[i]
  ELSE LastTokenStart(chars, i - 1)

\* The turn leaves the stack and the flag alone and passes one character.
TurnKeepsState ==
  /\ result'.brace_stack = result.brace_stack
  /\ result'.expect_key = result.expect_key
  /\ result'.i = result.i + 1

\* C21: a white space character is appended to the output as it is, outside
\* any span; a character that starts no token is appended outside any span
\* too, <, > and & as &lt;, &gt; and &amp; and any other as it is; neither
\* turn changes brace_stack or expect_key.  So a string with only such
\* characters between it and a left brace, or between it and a comma scanned
\* with a left brace on top of the stack, is written in the key colour.
C21_Passthrough ==
  [][/\ \A c \in WhitespaceChars :
          TurnAt(c) => Added = << c >> /\ TurnKeepsState
     /\ (TurnAtOther /\ input[result.i + 1] \notin WhitespaceChars) =>
          /\ Added = ( IF input[result.i + 1] \in Markup
                       THEN Entity(input[result.i + 1])
                       ELSE << input[result.i + 1] >> )
          /\ TurnKeepsState
     /\ ( /\ TurnAt(Code.quote)
          /\ \/ LastTokenStart(input, result.i) = Code.lbrace
             \/ /\ LastTokenStart(input, result.i) = Code.comma
                /\ Last(result.brace_stack) = Some(Code.lbrace) )
        => SpanOf(COLOR_KEY, << Code.quote >>)]_vars

\* In {"a":7, followed by a line feed, > and "B", the second string has been
\* written in the key colour after the line feed and &gt;.
C21_Witness ==
  /\ Scanning
  /\ input = << Code.lbrace >> \o Quoted(KeyA)
               \o << Code.colon, Digit(7), Code.comma, Code.lf, Code.gt >> \o Quoted(KeyB)
  /\ result.i = Len(input)
  /\ EndsWith(result.output,
              << Code.lf >> \o EntityGt
                \o SpanOpen \o COLOR_KEY \o SpanOpenEnd \o Quoted(KeyB) \o SpanClose)

(***************************************************************************)
(* C22.  Where a string token ends.                                        *)
(***************************************************************************)
\* The number of backslashes in a row right before position k (counted from
\* 1) and after position open.
RECURSIVE BackslashRun(_, _, _)
BackslashRun(text, k, open) ==
  IF k - 1 > open /\ text[k - 1] = Code.backslash
  THEN 1 + BackslashRun(text, k - 1, open)
  ELSE 0

\* The quotes after the opening one that are not the second character of a
\* backslash pair: an even number of backslashes stands before them.
ClosingQuotes(text, open) ==
  { k \in (open + 1)..Len(text) :
      text[k] = Code.quote /\ BackslashRun(text, k, open) % 2 = 0 }

\* The position of the last character of the string token that opens at
\* position open.
StringEnd(text, open) ==
  IF ClosingQuotes(text, open) = {} THEN Len(text)
  ELSE CHOOSE k \in ClosingQuotes(text, open) :
         \A other \in ClosingQuotes(text, open) : k <= other

\* C22: the string token that opens at a quote reaches to the first later
\* quote with an even number of backslashes right before it, and to the end
\* of the input when there is none; a backslash takes the character after it
\* along, a backslash at the very end is taken alone; closed or not, the
\* token is written as one span that opens with the quote, and a closed one
\* ends with its closing quote.
C22_StringToken ==
  [][TurnAt(Code.quote) =>
       /\ result'.i = StringEnd(input, result.i + 1)
       /\ result'.i > result.i
       /\ Occurrences(Added, SpanOpen) = 1
       /\ Occurrences(Added, SpanClose) = 1
       /\ \E color \in {COLOR_KEY, COLOR_STRING} : SpanOf(color, << Code.quote >>)
       /\ ClosingQuotes(input, result.i + 1) # {} =>
            /\ input[result'.i] = Code.quote
            /\ SpanText[Len(SpanText)] = Code.quote
       /\ ( /\ ClosingQuotes(input, result.i + 1) = {}
            /\ input[Len(input)] = Code.backslash
            /\ BackslashRun(input, Len(input), result.i + 1) % 2 = 0 )
          => SpanText[Len(SpanText)] = Code.backslash]_vars

\* The string of a quote, a backslash and a quote has been scanned to the
\* end of the input as one token: the second quote did not close it.
C22_Witness ==
  /\ Scanning
  /\ input = << Code.quote, Code.backslash, Code.quote >>
  /\ result.i = 3
  /\ EndsWith(result.output, << Code.quote, Code.backslash, Code.quote >> \o SpanClose)

(***************************************************************************)
(* C23.  Where a number token ends.  Positions count the characters before *)
(* them, as i does.                                                        *)
(***************************************************************************)
\* The character after position p, 0 at the end of the text.
At(text, p) == IF p < Len(text) THEN text[p + 1] ELSE 0

\* The position after the digits that follow position from.
DigitRun(text, from) ==
  CHOOSE e \in from..Len(text) :
    /\ \A k \in (from + 1)..e : IsDigit(text[k])
    /\ ~IsDigit(At(text, e))

AfterMinus(text, p) == IF At(text, p) = Code.minus THEN p + 1 ELSE p

AfterSign(text, p) == IF At(text, p) \in {Code.plus, Code.minus} THEN p + 1 ELSE p

\* The end of the number token as claimed: a point, and an e or E, are taken
\* only when an integer digit was scanned, and an e or E not right after the
\* point.
ClaimedFraction(text, minus, integer) ==
  IF integer > minus /\ At(text, integer) = Code.dot
  THEN DigitRun(text, integer + 1)
  ELSE integer

ClaimedExponent(text, minus, integer, fraction) ==
  IF /\ integer > minus
     /\ At(text, fraction) \in {Code.e, Code.upperE}
     /\ ~(fraction = integer + 1)
  THEN DigitRun(text, AfterSign(text, fraction + 1))
  ELSE fraction

ClaimedNumberEnd(text, p) ==
  ClaimedExponent(text, AfterMinus(text, p), DigitRun(text, AfterMinus(text, p)),
                  ClaimedFraction(text, AfterMinus(text, p),
                                  DigitRun(text, AfterMinus(text, p))))

\* The end of the number token with every part optional: a minus, digits, a
\* point and digits, an e or E with a sign and digits.
LenientFraction(text, integer) ==
  IF At(text, integer) = Code.dot THEN DigitRun(text, integer + 1) ELSE integer

LenientExponent(text, fraction) ==
  IF At(text, fraction) \in {Code.e, Code.upperE}
  THEN DigitRun(text, AfterSign(text, fraction + 1))
  ELSE fraction

LenientNumberEnd(text, p) ==
  LenientExponent(text, LenientFraction(text, DigitRun(text, AfterMinus(text, p))))

\* The loop is at a minus or a digit and takes a turn.
TurnAtNumber ==
  \E c \in {Code.minus} \cup Code.zero..(Code.zero + 9) : TurnAt(c)

\* The turn writes the characters from its position to position end as one
\* number token.
NumberTokenTo(end) ==
  /\ result'.i = end
  /\ result'.i > result.i
  /\ Added = SpanOpen \o COLOR_NUMBER \o SpanOpenEnd
               \o SubSeq(input, result.i + 1, end) \o SpanClose

\* C23 as claimed: at a minus or a digit the scan writes one number token of
\* an optional minus, the integer digits, an optional point with the
\* fraction digits and an optional e or E with an optional sign and the
\* exponent digits, where a point and an e or E are taken only after an
\* integer digit, an e or E right after the point is not taken, and a minus
\* with no digit after it is the token alone; at least one character is
\* taken.
C23_NumberGrammar ==
  [][TurnAtNumber => NumberTokenTo(ClaimedNumberEnd(input, result.i))]_vars

\* C23 amended: ... every part is optional and taken when it is there: a
\* point is taken with no integer digit before it, an e or E is taken right
\* after the minus, the integer digits, the point or the fraction digits,
\* and a minus is the token alone only when none of a digit, a point, an e
\* and an E follows it; at least one character is taken.
C23_NumberLenient ==
  [][TurnAtNumber => NumberTokenTo(LenientNumberEnd(input, result.i))]_vars

\* The three characters minus, point, 5 have been written as one number
\* token.
C23_Witness ==
  /\ Scanning
  /\ input = << Code.minus, Code.dot, Digit(5) >>
  /\ result.i = 3
  /\ EndsWith(result.output,
              SpanOpenEnd \o << Code.minus, Code.dot, Digit(5) >> \o SpanClose)

(***************************************************************************)
(* C24.  Keywords.                                                         *)
(***************************************************************************)
\* The keyword that starts with the character, and its colour.
KeywordOf(c) ==
  IF c = Code.t THEN KeywordTrue ELSE IF c = Code.f THEN KeywordFalse ELSE KeywordNull

KeywordColor(c) == IF c = Code.n THEN COLOR_NULL ELSE COLOR_BOOLEAN

\* The keyword stands at the position, and after it the text ends or a
\* character that is not alphanumeric follows.
KeywordAt(text, p, keyword) ==
  /\ StartsWith(text, p + 1, keyword)
  /\ \/ p + Len(keyword) = Len(text)
     \/ ~is_alphanumeric(text[p + Len(keyword) + 1])

\* C24: at a t, f or n the scan writes a boolean or null token exactly when
\* true, false or null stands there and is followed by the end of the input
\* or a character that is not alphanumeric; it then passes exactly the
\* characters of the keyword and writes them in one span of the boolean or
\* the null colour; otherwise it passes the t, f or n alone and writes it
\* outside any span.
C24_Keywords ==
  [][\A c \in {Code.t, Code.f, Code.n} :
       TurnAt(c) =>
         IF KeywordAt(input, result.i, KeywordOf(c))
         THEN /\ result'.i = result.i + Len(KeywordOf(c))
              /\ Added = SpanOpen \o KeywordColor(c) \o SpanOpenEnd
                           \o KeywordOf(c) \o SpanClose
         ELSE /\ result'.i = result.i + 1
              /\ Added = << c >>]_vars

\* The text true followed by x has been scanned to its end and holds no
\* span.
C24_Witness ==
  /\ Scanning
  /\ input = KeywordTrue \o << Code.x >>
  /\ result.i = 5
  /\ result.output = PreOpen \o KeywordTrue \o << Code.x >>

(***************************************************************************)
(* C25.  Keys and string values of a valid document.  In a JSON text a     *)
(* string is the key of an object exactly when the next token is a colon.  *)
(***************************************************************************)
ValidInput == Parsed.ok

\* The first character from the position on that is no white space, 0 at
\* the end of the text.
RECURSIVE TokenAfter(_, _)
TokenAfter(text, p) ==
  IF ~(p < Len(text)) THEN 0
  ELSE IF text[p + 1] \in {Code.space, Code.tab, Code.lf, Code.cr}
  THEN TokenAfter(text, p + 1)
  ELSE text[p + 1]

\* C25: in a valid JSON document every string that is the key of an object,
\* at any depth, is written in the key colour, and every other string, the
\* value of an entry or the element of an array, also the first one after a
\* comma in an array inside an object, is written in the string colour.
C25_KeysOfDocument ==
  [][(TurnAt(Code.quote) /\ ValidInput) =>
       IF TokenAfter(input, result'.i) = Code.colon
       THEN SpanOf(COLOR_KEY, << Code.quote >>)
       ELSE SpanOf(COLOR_STRING, << Code.quote >>)]_vars

\* In {"a":[true,"a"]} the string of the array has been written in the
\* string colour.
C25_Witness ==
  /\ Scanning
  /\ input = ObjectText(EntryText(KeyA,
                 ArrayText(Both(TextTrue, Quoted(KeyA), <<>>), <<>>), <<>>), <<>>)
  /\ result.i = Len(input) - 2
  /\ EndsWith(result.output,
              SpanOpen \o COLOR_STRING \o SpanOpenEnd \o Quoted(KeyA) \o SpanClose)

(***************************************************************************)
(* C26.  Reading the input back from the output.                           *)
(***************************************************************************)
\* What stands at position p of the text: a span tag, an entity, or a
\* character.  len is the number of characters it takes, src what it was in
\* the input.
PieceAt(out, p) ==
  IF StartsWith(out, p, SpanOpen)
  THEN [len |-> Len(SpanOpen) + Len(COLOR_STRING) + Len(SpanOpenEnd), src |-> <<>>]
  ELSE IF StartsWith(out, p, SpanClose) THEN [len |-> Len(SpanClose), src |-> <<>>]
  ELSE IF StartsWith(out, p, EntityLt) THEN [len |-> Len(EntityLt), src |-> << Code.lt >>]
  ELSE IF StartsWith(out, p, EntityGt) THEN [len |-> Len(EntityGt), src |-> << Code.gt >>]
  ELSE IF StartsWith(out, p, EntityAmp) THEN [len |-> Len(EntityAmp), src |-> << Code.amp >>]
  ELSE [len |-> 1, src |-> << out[p] >>]

\* The text read back from position p of the output to position last: the
\* span tags left out, the entities read as the characters they stand for.
RECURSIVE ReadBack(_, _, _)
ReadOn(out, p, last, piece) == piece.src \o ReadBack(out, p + piece.len, last)
ReadBack(out, p, last) ==
  IF p > last THEN <<>> ELSE ReadOn(out, p, last, PieceAt(out, p))

\* The input holds a backslash right before an ampersand.
BackslashAmp == \E k \in 1..(Len(input) - 1) : input[k] = Code.backslash /\ input[k + 1] = Code.amp

\* C26: the text highlight_json returns, read back between the pre tags with
\* the span tags left out and &lt;, &gt;, &amp; read as <, > and &, is the
\* input: every character once, in order, for valid and invalid input.
C26_ReadBack ==
  (Returned /\ input # <<>>) =>
    /\ StartsWith(result.output, 1, PreOpen)
    /\ EndsWith(result.output, PreClose)
    /\ ReadBack(result.output, Len(PreOpen) + 1, Len(result.output) - Len(PreClose)) = input

\* The same for the inputs with no backslash right before an ampersand.
ReadBackUnlessBackslashAmp == BackslashAmp \/ C26_ReadBack


(***************************************************************************)
(* C27.  The minified and the formatted text.                              *)
(***************************************************************************)
Minified == op = "minify" /\ result.tag = "Ok"

\* The text from position p on without the white space that stands outside
\* its strings; inString tells whether position p is inside a string.
RECURSIVE Squeeze(_, _, _)
Squeeze(text, p, inString) ==
  IF p > Len(text) THEN <<>>
  ELSE IF inString /\ text[p] = Code.backslash /\ p < Len(text)
  THEN << text[p], text[p + 1] >> \o Squeeze(text, p + 2, TRUE)
  ELSE IF inString THEN << text[p] >> \o Squeeze(text, p + 1, text[p] # Code.quote)
  ELSE IF text[p] \in {Code.space, Code.tab, Code.lf, Code.cr}
  THEN Squeeze(text, p + 1, FALSE)
  ELSE << text[p] >> \o Squeeze(text, p + 1, text[p] = Code.quote)

\* Every string and every key of the tree is made of characters that
\* format_value and the compact serializer write alike, the keys of
\* characters that are written as they are.
SameEscapes(v) ==
  \A k \in 1..Len(Nodes(v)) :
    /\ Nodes(v)[k].kind = "String" =>
         \A j \in 1..Len(Nodes(v)[k].s) :
           EscapeStringChar(Nodes(v)[k].s[j]) = CompactEscape(Nodes(v)[k].s[j])
    /\ Nodes(v)[k].kind = "Object" =>
         \A e \in 1..Len(Nodes(v)[k].obj) :
           \A j \in 1..Len(Nodes(v)[k].obj[e][1]) :
             CompactEscape(Nodes(v)[k].obj[e][1][j]) = << Nodes(v)[k].obj[e][1][j] >>

\* C27: for a valid input the text minify_json returns is the text
\* format_json returns, whatever the indent, without its line feeds, its
\* indentation and the space after each colon: the same tokens in the same
\* order, the same order of keys, every string escaped the same way; and it
\* holds no white space outside its strings.
C27_MinifyIsFormatSqueezed ==
  Minified =>
    /\ Squeeze(result.val, 1, FALSE) = result.val
    /\ \A style \in IndentStyles :
         Squeeze(format_json(input, style).val, 1, FALSE) = result.val

\* The same for the inputs whose strings and keys both functions escape
\* alike.
MinifyIsFormatSqueezedOnSameEscapes ==
  (Minified /\ ~SameEscapes(Parsed.v)) \/ C27_MinifyIsFormatSqueezed

\* A text with escapes both functions write alike has been minified.
MinifiedSameEscapes ==
  /\ Minified
  /\ SameEscapes(Parsed.v)
  /\ input = Quoted(EscQuote \o EscLf)

====
